---- MODULE Spec2Model ----
(***************************************************************************)
(* A model of the sliding-window grid engine of tianxingj2021/wangge:      *)
(*   - the open-orders cache of the Extended venue adapter                 *)
(*     (src/jiaoyisuoshili/extended.py, src/exchanges/extended.py),        *)
(*   - the exchange instance pool (src/core/exchange_pool.py),             *)
(*   - the sliding-window grid strategy                                    *)
(*     (src/strategies/sliding_window_grid.py).                            *)
(*                                                                         *)
(* Each subsystem has its own specification (SpecCache, SpecPool, ...)     *)
(* over its own variables; the variables of the other subsystems keep      *)
(* their initial values under it.                                          *)
(*                                                                         *)
(* Time is counted in units of half a second: 1.5 s is 3, 5 s is 10.       *)
(***************************************************************************)
EXTENDS Integers, Sequences, FiniteSets, TLC

VARIABLES
    \* ---- the venue and the adapter's open-orders cache
    now,                      \* time.time(), in half seconds
    venue_orders,             \* the orders open at the venue (the account's book)
    next_order_id,            \* the id the venue gives the next order
    open_orders,              \* Extended.open_orders: the cache, order_id -> order
    orders_cache_timestamp,   \* Extended.orders_cache_timestamp, 0 = never set
    call,                     \* per caller: the adapter call in flight
    result,                   \* the outcome of the call that completed in the last step
    refreshed,                \* history: a venue refresh has rebuilt the cache
    refresh_time,             \* history: the time of the call that last rebuilt the cache
    placed_ok,                \* history: ids placed successfully through the adapter
    cancelled_ok              \* history: ids cancelled successfully through the adapter

cacheVars == <<now, venue_orders, next_order_id, open_orders, orders_cache_timestamp,
               call, result, refreshed, refresh_time, placed_ok, cancelled_ok>>

\* the exchange instance pool (core/exchange_pool.py)
VARIABLES pool_instances, pool_managers, pool_lock, pool_thread, next_exchange,
          closed, built, handed, pool_ret
poolVars == <<pool_instances, pool_managers, pool_lock, pool_thread, next_exchange,
              closed, built, handed, pool_ret>>

\* one strategy instance and the threads that run its tick (strategies/sliding_window_grid.py)
VARIABLES is_running, stop_update_thread, last_order_time, cycle_count, clock,
          api, worker, tick, last_submit, tick_event, registered
tickVars == <<is_running, stop_update_thread, last_order_time, cycle_count, clock,
              api, worker, tick, last_submit, tick_event, registered>>

\* the reconciliation tick of one strategy instance against its venue account
VARIABLES bid_price, ask_price, venue_position, book, grid_next_id, grid_cache,
          pm_positions, grid, grid_event, venue_errors, fills, most_duplicates,
          lost_orders
gridVars == <<bid_price, ask_price, venue_position, book, grid_next_id, grid_cache,
              pm_positions, grid, grid_event, venue_errors, fills, most_duplicates,
              lost_orders>>

\* the adapters built for one account and their executors (exchanges/extended.py)
VARIABLES adapters, adapter_pooled, adapter_next, adapter_held, adapter_closing,
          adapter_errors, adapter_event
adapterVars == <<adapters, adapter_pooled, adapter_next, adapter_held, adapter_closing,
                 adapter_errors, adapter_event>>

\* ---- the depth stream of one symbol (jiaoyisuoshili/extended.py, get_depth)
VARIABLES orderbooks, stream_best, last_depth_prices, orderbook_empty_count,
          depth_clock, depth_advances, empty_run, depth_event
depthVars == <<orderbooks, stream_best, last_depth_prices, orderbook_empty_count,
               depth_clock, depth_advances, empty_run, depth_event>>

\* ---- symbol normalization (exchanges/extended.py, backend/api/strategy.py)
VARIABLES raw_symbol, default_market, normalized
symbolVars == <<raw_symbol, default_market, normalized>>

\* ---- configuration store (core/config_manager.py)
VARIABLES all_configs, config_event
configVars == <<all_configs, config_event>>

\* ---- submissions through one adapter (exchanges/extended.py, _run_async)
VARIABLES submit_pc, call_order, api_loop, venue_received
submitVars == <<submit_pc, call_order, api_loop, venue_received>>

\* ---- one order on its way to the venue SDK (core/order_manager.py)
VARIABLES order_call
orderVars == <<order_call>>

\* ---- the ideal ladder of one planning call (strategies/sliding_window_grid.py)
VARIABLES ladder
ladderVars == <<ladder>>

\* ---- one stop() call of a running instance (strategies/sliding_window_grid.py)
VARIABLES stop, live_orders, account_position
stopVars == <<stop, live_orders, account_position>>

nonCacheVars == <<poolVars, tickVars, gridVars, adapterVars, depthVars, symbolVars, configVars, submitVars, orderVars, ladderVars, stopVars>>
nonPoolVars == <<cacheVars, tickVars, gridVars, adapterVars, depthVars, symbolVars, configVars, submitVars, orderVars, ladderVars, stopVars>>
nonTickVars == <<cacheVars, poolVars, gridVars, adapterVars, depthVars, symbolVars, configVars, submitVars, orderVars, ladderVars, stopVars>>
nonGridVars == <<cacheVars, poolVars, tickVars, adapterVars, depthVars, symbolVars, configVars, submitVars, orderVars, ladderVars, stopVars>>
nonAdapterVars == <<cacheVars, poolVars, tickVars, gridVars, depthVars, symbolVars, configVars, submitVars, orderVars, ladderVars, stopVars>>
nonDepthVars == <<cacheVars, poolVars, tickVars, gridVars, adapterVars, symbolVars, configVars, submitVars, orderVars, ladderVars, stopVars>>
nonSymbolVars == <<cacheVars, poolVars, tickVars, gridVars, adapterVars, depthVars, configVars, submitVars, orderVars, ladderVars, stopVars>>
nonConfigVars == <<cacheVars, poolVars, tickVars, gridVars, adapterVars, depthVars, symbolVars, submitVars, orderVars, ladderVars, stopVars>>
nonSubmitVars == <<cacheVars, poolVars, tickVars, gridVars, adapterVars, depthVars, symbolVars, configVars, orderVars, ladderVars, stopVars>>
nonOrderVars == <<cacheVars, poolVars, tickVars, gridVars, adapterVars, depthVars, symbolVars, configVars, submitVars, ladderVars, stopVars>>
nonLadderVars == <<cacheVars, poolVars, tickVars, gridVars, adapterVars, depthVars, symbolVars, configVars, submitVars, orderVars, stopVars>>
nonStopVars == <<cacheVars, poolVars, tickVars, gridVars, adapterVars, depthVars, symbolVars, configVars, submitVars, orderVars, ladderVars>>
vars == <<cacheVars, poolVars, tickVars, gridVars, adapterVars, depthVars, symbolVars, configVars, submitVars, orderVars, ladderVars, stopVars>>

(***************************************************************************)
(* Bounds of the model.                                                    *)
(***************************************************************************)
NumCallers == 1
MaxOrderId == 2
MaxCacheTime == 20

(***************************************************************************)
(* The adapter's open-orders cache.                                        *)
(***************************************************************************)
orders_cache_ttl == 10

Symbols == {"BTC-USD", "ETH-USD"}
\* dict order of Extended.markets, the order the symbol=None branch walks it in
MarketSeq == <<"BTC-USD", "ETH-USD">>
NoSymbol == "None"
\* the callers that may have a venue refresh in flight (a cache hit, a placement and a
\* cancel do not suspend between reading and writing the cache)
Callers == 1..NumCallers
\* the step by which the clock is observed to move: half the TTL, so that a cache is
\* seen at the ages 0, TTL/2 (fresh) and TTL (expired, the boundary)
ClockStep == orders_cache_ttl \div 2

Ids(orders) == {o.order_id : o \in orders}

\* orders filtered as lines 889-893 do (every cached order has status NEW)
FilterSymbol(orders, symbol) ==
    IF symbol # NoSymbol THEN {o \in orders : o.symbol = symbol} ELSE orders

\* the age test of cache_valid
CacheFresh(ts, current_time) == (current_time - ts) < orders_cache_ttl

\* cache_valid of Extended.get_open_orders, and of the wrapper's symbol=None branch
CacheValid(use_cache, ts, current_time) ==
    /\ use_cache
    /\ ts > 0
    /\ CacheFresh(ts, current_time)

IdleCall == [pc |-> "idle", symbol |-> NoSymbol, use_cache |-> FALSE, current_time |-> 0,
             market |-> NoSymbol, rest |-> << >>, acc |-> {}, resp_ok |-> FALSE,
             resp_data |-> {}, fresh_seen |-> FALSE, refreshed_seen |-> FALSE,
             failed |-> FALSE]

NoResult == [op |-> "none", kind |-> "none", symbol |-> NoSymbol, use_cache |-> FALSE,
             orders |-> {}, fresh_seen |-> FALSE, refreshed_seen |-> FALSE,
             refresh_failed |-> FALSE, reported |-> {}, cached_after |-> {},
             own_open |-> {}, order_id |-> 0, removed |-> {}, refresh_age |-> 0]

\* history: the orders placed through the adapter that are open at the venue
OwnOpen(symbol) ==
    Ids(FilterSymbol({o \in venue_orders : o.order_id \in placed_ok}, symbol))

CacheInit ==
    /\ now = orders_cache_ttl
    /\ venue_orders = {}
    /\ next_order_id = 1
    /\ open_orders = {}
    /\ orders_cache_timestamp = 0
    /\ call = [c \in Callers |-> IdleCall]
    /\ result = NoResult
    /\ refreshed = FALSE
    /\ refresh_time = 0
    /\ placed_ok = {}
    /\ cancelled_ok = {}

\* ExtendedExchange.get_open_orders up to its first suspension: the cache check, and
\* on a hit the answer from the cache
GetOpenOrdersCall(c, symbol, use_cache) ==
    /\ UNCHANGED nonCacheVars
    /\ call[c].pc = "idle"
    /\ LET hit == CacheValid(use_cache, orders_cache_timestamp, now)
           first == IF symbol # NoSymbol THEN symbol ELSE Head(MarketSeq)
           others == IF symbol # NoSymbol THEN << >> ELSE Tail(MarketSeq)
       IN  IF hit
           THEN /\ result' = [NoResult EXCEPT
                        !.op = "get", !.kind = "cache", !.symbol = symbol,
                        !.use_cache = use_cache,
                        !.orders = Ids(FilterSymbol(open_orders, symbol)),
                        !.fresh_seen = CacheFresh(orders_cache_timestamp, now),
                        !.refreshed_seen = refreshed,
                        !.refresh_age = now - refresh_time,
                        !.own_open = OwnOpen(symbol)]
                /\ UNCHANGED call
           ELSE /\ call' = [call EXCEPT ![c] = [IdleCall EXCEPT
                        !.pc = "rest_wait", !.symbol = symbol, !.use_cache = use_cache,
                        !.current_time = now, !.market = first, !.rest = others,
                        !.fresh_seen = CacheFresh(orders_cache_timestamp, now),
                        !.refreshed_seen = refreshed]]
                /\ result' = NoResult
    /\ UNCHANGED <<now, venue_orders, next_order_id, open_orders, orders_cache_timestamp,
                   refreshed, refresh_time, placed_ok, cancelled_ok>>

\* trading_client.account.get_open_orders(): the venue answers with the account's
\* open orders, or with an error
RestRespond(c, ok) ==
    /\ UNCHANGED nonCacheVars
    /\ call[c].pc = "rest_wait"
    /\ call' = [call EXCEPT ![c].pc = "rest_resp", ![c].resp_ok = ok,
                            ![c].resp_data = IF ok THEN venue_orders ELSE {}]
    /\ result' = NoResult
    /\ UNCHANGED <<now, venue_orders, next_order_id, open_orders, orders_cache_timestamp,
                   refreshed, refresh_time, placed_ok, cancelled_ok>>

\* the rebuilt cache of lines 903-922: only the orders that pass the symbol filter
RebuiltCache(data, symbol) == {o \in data : o.symbol = symbol}

\* Extended.get_open_orders after the await: raise, or rebuild the cache; then the
\* wrapper's loop over the markets (symbol=None) or its return
GetOpenOrdersReturn(c) ==
    /\ UNCHANGED nonCacheVars
    /\ call[c].pc = "rest_resp"
    /\ LET k == call[c]
           ok == k.resp_ok
           got == IF ok THEN RebuiltCache(k.resp_data, k.market) ELSE {}
           cache2 == IF ok THEN got ELSE open_orders
           acc2 == k.acc \cup Ids(got)
           failed2 == k.failed \/ ~ok
           res == [NoResult EXCEPT
                        !.op = "get", !.symbol = k.symbol, !.use_cache = k.use_cache,
                        !.fresh_seen = k.fresh_seen,
                        !.refreshed_seen = k.refreshed_seen,
                        !.refresh_failed = failed2,
                        !.reported = Ids(k.resp_data), !.cached_after = Ids(cache2)]
       IN  /\ open_orders' = cache2
           /\ orders_cache_timestamp' = IF ok THEN k.current_time ELSE orders_cache_timestamp
           /\ refreshed' = (refreshed \/ ok)
           /\ refresh_time' = IF ok THEN k.current_time ELSE refresh_time
           /\ IF k.symbol # NoSymbol
              THEN \* called with a symbol: an error propagates to the caller
                   /\ result' = IF ok THEN [res EXCEPT !.kind = "rest", !.orders = Ids(got)]
                                      ELSE [res EXCEPT !.kind = "error"]
                   /\ call' = [call EXCEPT ![c] = IdleCall]
              ELSE IF k.rest # << >>
              THEN \* symbol=None: the next market, errors swallowed (except: continue)
                   /\ call' = [call EXCEPT ![c] = [k EXCEPT
                                !.pc = "rest_wait", !.market = Head(k.rest),
                                !.rest = Tail(k.rest), !.acc = acc2, !.failed = failed2,
                                !.current_time = now, !.resp_ok = FALSE, !.resp_data = {}]]
                   /\ result' = NoResult
              ELSE /\ result' = [res EXCEPT !.kind = "rest", !.orders = acc2]
                   /\ call' = [call EXCEPT ![c] = IdleCall]
    /\ UNCHANGED <<now, venue_orders, next_order_id, placed_ok, cancelled_ok>>

\* Extended.create_order: the venue accepts the order, the cache takes it and the
\* timestamp is refreshed (lines 1039-1043); or the venue refuses and it raises
CreateOrder(symbol, side, price, ok) ==
    /\ UNCHANGED nonCacheVars
    /\ next_order_id <= MaxOrderId
    /\ LET order == [order_id |-> next_order_id, symbol |-> symbol,
                     side |-> side, price |-> price]
       IN  IF ok
           THEN /\ venue_orders' = venue_orders \cup {order}
                /\ next_order_id' = next_order_id + 1
                /\ open_orders' = {o \in open_orders : o.order_id # order.order_id}
                                      \cup {order}
                /\ orders_cache_timestamp' = now
                /\ placed_ok' = placed_ok \cup {order.order_id}
                /\ result' = [NoResult EXCEPT !.op = "place", !.kind = "ok",
                                !.symbol = symbol, !.order_id = order.order_id]
           ELSE /\ result' = [NoResult EXCEPT !.op = "place", !.kind = "error",
                                !.symbol = symbol]
                /\ UNCHANGED <<venue_orders, next_order_id, open_orders,
                               orders_cache_timestamp, placed_ok>>
    /\ UNCHANGED <<now, call, refreshed, refresh_time, cancelled_ok>>

\* Extended.cancel_order by order id: the venue cancels an open order, the cache drops
\* it and the timestamp is refreshed (lines 1072-1076); any other id is an error
CancelOrder(order_id) ==
    /\ UNCHANGED nonCacheVars
    /\ order_id \in 1..(next_order_id - 1)
    /\ IF order_id \in Ids(venue_orders)
       THEN /\ venue_orders' = {o \in venue_orders : o.order_id # order_id}
            /\ open_orders' = {o \in open_orders : o.order_id # order_id}
            /\ orders_cache_timestamp' = now
            /\ cancelled_ok' = cancelled_ok \cup {order_id}
            /\ result' = [NoResult EXCEPT !.op = "cancel", !.kind = "ok",
                            !.order_id = order_id,
                            !.removed = Ids(open_orders) \ Ids(open_orders')]
       ELSE /\ result' = [NoResult EXCEPT !.op = "cancel", !.kind = "error",
                            !.order_id = order_id]
            /\ UNCHANGED <<venue_orders, open_orders, orders_cache_timestamp, cancelled_ok>>
    /\ UNCHANGED <<now, next_order_id, call, refreshed, refresh_time, placed_ok>>

\* the venue fills (or expires) an open order: it leaves the book, the adapter is not told
VenueFill(order_id) ==
    /\ UNCHANGED nonCacheVars
    /\ order_id \in Ids(venue_orders)
    /\ venue_orders' = {o \in venue_orders : o.order_id # order_id}
    /\ result' = NoResult
    /\ UNCHANGED <<now, next_order_id, open_orders, orders_cache_timestamp, call,
                   refreshed, refresh_time, placed_ok, cancelled_ok>>

\* an order of the account placed by another client of the venue
VenueExternalOrder(symbol, side, price) ==
    /\ UNCHANGED nonCacheVars
    /\ next_order_id <= MaxOrderId
    /\ venue_orders' = venue_orders \cup
            {[order_id |-> next_order_id, symbol |-> symbol, side |-> side, price |-> price]}
    /\ next_order_id' = next_order_id + 1
    /\ result' = NoResult
    /\ UNCHANGED <<now, open_orders, orders_cache_timestamp, call,
                   refreshed, refresh_time, placed_ok, cancelled_ok>>

\* time passes
CacheAdvance ==
    /\ UNCHANGED nonCacheVars
    /\ now + ClockStep <= MaxCacheTime
    /\ now' = now + ClockStep
    /\ result' = NoResult
    /\ UNCHANGED <<venue_orders, next_order_id, open_orders, orders_cache_timestamp, call,
                   refreshed, refresh_time, placed_ok, cancelled_ok>>

CacheNext ==
    \/ \E c \in Callers, s \in Symbols \cup {NoSymbol}, u \in BOOLEAN :
            GetOpenOrdersCall(c, s, u)
    \/ \E c \in Callers, ok \in BOOLEAN : RestRespond(c, ok)
    \/ \E c \in Callers : GetOpenOrdersReturn(c)
    \/ \E s \in Symbols, ok \in BOOLEAN : CreateOrder(s, "BUY", 50000, ok)
    \/ \E i \in 1..MaxOrderId : CancelOrder(i)
    \/ \E i \in 1..MaxOrderId : VenueFill(i)
    \/ \E s \in Symbols : VenueExternalOrder(s, "BUY", 50000)
    \/ CacheAdvance


(***************************************************************************)
(* The exchange instance pool: ExchangeInstancePool (core/exchange_pool.py) *)
(* Every class method runs under the one non-reentrant class lock.          *)
(***************************************************************************)

\* threads calling into the pool, exchange objects the factory may build
NumPoolThreads == 2
MaxExchanges == 3

PoolThreads == 1..NumPoolThreads
\* account keys requests name; the configuration file knows the first two
AccountKeys == {"acct1", "acct2", "ghost"}
ConfiguredKeys == {"acct1", "acct2"}
NoExchange == 0
\* a manager triple (OrderManager, AccountManager, PositionManager) is known by the
\* exchange object its three managers were built around
NoManagers == [exchange |-> NoExchange]
Managers(exchange) == [exchange |-> exchange]

IdleThread == [pc |-> "idle", op |-> "none", key |-> "none", exchange |-> NoExchange,
               before |-> <<NoExchange, NoManagers>>, contended |-> FALSE]
NoPoolRet == [op |-> "none", kind |-> "none", key |-> "none", thread |-> 0,
              managers |-> NoManagers, exchange |-> NoExchange,
              before |-> <<NoExchange, NoManagers>>, contended |-> FALSE]

PoolInit ==
    /\ pool_instances = [k \in AccountKeys |-> NoExchange]
    /\ pool_managers = [k \in AccountKeys |-> NoManagers]
    /\ pool_lock = 0
    /\ pool_thread = [t \in PoolThreads |-> IdleThread]
    /\ next_exchange = 1
    /\ closed = {}
    /\ built = [k \in AccountKeys |-> {}]
    /\ handed = [k \in AccountKeys |-> {}]
    /\ pool_ret = NoPoolRet

\* a pool whose methods do not wait for the lock
CanAcquire_Unlocked(t) == t \in PoolThreads

\* `with cls._lock:` of a threading.Lock: a thread enters when no thread holds it
CanAcquire(t) == pool_lock = 0

\* the value a finished call hands its caller
PoolReturn(t, kind, m, e) ==
    [NoPoolRet EXCEPT !.op = pool_thread[t].op, !.kind = kind,
                      !.key = pool_thread[t].key, !.thread = t,
                      !.managers = m, !.exchange = e,
                      !.before = pool_thread[t].before,
                      !.contended = pool_thread[t].contended]

\* a request handler or the startup code calls a class method of the pool
PoolCall(t, op, k) ==
    /\ UNCHANGED nonPoolVars
    /\ pool_thread[t].pc = "idle"
    /\ pool_thread' = [pool_thread EXCEPT ![t] = [IdleThread EXCEPT
            !.pc = "acquire", !.op = op, !.key = k,
            !.contended = \E u \in PoolThreads \ {t} :
                              /\ pool_thread[u].op = "get_managers"
                              /\ pool_thread[u].key = k
                              /\ pool_thread[u].pc = "create"]]
    /\ pool_ret' = NoPoolRet
    /\ UNCHANGED <<pool_instances, pool_managers, pool_lock, next_exchange, closed,
                   built, handed>>

\* get_managers, lines 39-52: take the lock, return the pooled triple, or raise for
\* a key without configuration, or go on to build
GetManagersEnter(t) ==
    /\ UNCHANGED nonPoolVars
    /\ pool_thread[t].pc = "acquire"
    /\ pool_thread[t].op = "get_managers"
    /\ CanAcquire(t)
    /\ LET k == pool_thread[t].key
       IN  IF pool_managers[k] # NoManagers
           THEN /\ pool_ret' = PoolReturn(t, "pooled", pool_managers[k],
                                          pool_managers[k].exchange)
                /\ handed' = [handed EXCEPT ![k] = @ \cup {pool_managers[k]}]
                /\ pool_thread' = [pool_thread EXCEPT ![t] = IdleThread]
                /\ pool_lock' = 0
           ELSE IF k \notin ConfiguredKeys
           THEN /\ pool_ret' = PoolReturn(t, "error", NoManagers, NoExchange)
                /\ pool_thread' = [pool_thread EXCEPT ![t] = IdleThread]
                /\ pool_lock' = 0
                /\ UNCHANGED handed
           ELSE /\ pool_ret' = NoPoolRet
                /\ pool_thread' = [pool_thread EXCEPT ![t].pc = "create",
                        ![t].before = <<pool_instances[k], pool_managers[k]>>]
                /\ pool_lock' = t
                /\ UNCHANGED handed
    /\ UNCHANGED <<pool_instances, pool_managers, next_exchange, closed, built>>

\* get_managers, lines 55-84 and 101-103: ExchangeFactory.create returns a new
\* exchange object, or raises and the call ends in ValueError
GetManagersCreate(t, ok) ==
    /\ UNCHANGED nonPoolVars
    /\ pool_thread[t].pc = "create"
    /\ LET k == pool_thread[t].key
       IN  IF ok
           THEN /\ next_exchange <= MaxExchanges
                /\ pool_thread' = [pool_thread EXCEPT ![t].pc = "save",
                                                      ![t].exchange = next_exchange]
                /\ next_exchange' = next_exchange + 1
                /\ built' = [built EXCEPT ![k] = @ \cup {next_exchange}]
                /\ pool_ret' = NoPoolRet
                /\ UNCHANGED pool_lock
           ELSE /\ pool_ret' = PoolReturn(t, "error", NoManagers, NoExchange)
                /\ pool_thread' = [pool_thread EXCEPT ![t] = IdleThread]
                /\ pool_lock' = 0
                /\ UNCHANGED <<next_exchange, built>>
    /\ UNCHANGED <<pool_instances, pool_managers, closed, handed>>

\* get_managers, line 87: the instance enters the pool
GetManagersSave(t) ==
    /\ UNCHANGED nonPoolVars
    /\ pool_thread[t].pc = "save"
    /\ pool_instances' = [pool_instances EXCEPT
                            ![pool_thread[t].key] = pool_thread[t].exchange]
    /\ pool_thread' = [pool_thread EXCEPT ![t].pc = "managers"]
    /\ pool_ret' = NoPoolRet
    /\ UNCHANGED <<pool_managers, pool_lock, next_exchange, closed, built, handed>>

\* get_managers, lines 91-99: the triple built around the instance enters the pool and
\* is returned; the lock is released
GetManagersReturn(t) ==
    /\ UNCHANGED nonPoolVars
    /\ pool_thread[t].pc = "managers"
    /\ LET k == pool_thread[t].key
           m == Managers(pool_thread[t].exchange)
       IN  /\ pool_managers' = [pool_managers EXCEPT ![k] = m]
           /\ handed' = [handed EXCEPT ![k] = @ \cup {m}]
           /\ pool_ret' = PoolReturn(t, "created", m, pool_thread[t].exchange)
    /\ pool_thread' = [pool_thread EXCEPT ![t] = IdleThread]
    /\ pool_lock' = 0
    /\ UNCHANGED <<pool_instances, next_exchange, closed, built>>

\* get_exchange, lines 116-125: under the lock, return the pooled instance; for an
\* absent key call get_managers, whose `with cls._lock` waits for the lock this
\* thread holds (pc "nested" has no way on).  The instance lookup of the API layer
\* (backend/api/exchange.py, 78-104) starts with this call and returns what it
\* returns; its later steps need get_exchange to come back without an instance
GetExchangeEnter(t) ==
    /\ UNCHANGED nonPoolVars
    /\ pool_thread[t].pc = "acquire"
    /\ pool_thread[t].op \in {"get_exchange", "get_exchange_instance"}
    /\ CanAcquire(t)
    /\ LET k == pool_thread[t].key
       IN  IF pool_instances[k] # NoExchange
           THEN /\ pool_ret' = PoolReturn(t, "pooled", NoManagers, pool_instances[k])
                /\ pool_thread' = [pool_thread EXCEPT ![t] = IdleThread]
                /\ pool_lock' = 0
           ELSE /\ pool_ret' = NoPoolRet
                /\ pool_thread' = [pool_thread EXCEPT ![t].pc = "nested"]
                /\ pool_lock' = t
    /\ UNCHANGED <<pool_instances, pool_managers, next_exchange, closed, built, handed>>

\* remove_account, lines 138-140 and 153-157: take the lock; with no pooled instance
\* drop the triple (if any) and return
RemoveAccountEnter(t) ==
    /\ UNCHANGED nonPoolVars
    /\ pool_thread[t].pc = "acquire"
    /\ pool_thread[t].op = "remove_account"
    /\ CanAcquire(t)
    /\ LET k == pool_thread[t].key
       IN  IF pool_instances[k] # NoExchange
           THEN /\ pool_thread' = [pool_thread EXCEPT ![t].pc = "close",
                        ![t].exchange = pool_instances[k]]
                /\ pool_lock' = t
                /\ pool_ret' = NoPoolRet
                /\ UNCHANGED <<pool_managers, built, handed>>
           ELSE /\ pool_ret' = PoolReturn(t,
                        IF pool_managers[k] # NoManagers THEN "removed" ELSE "absent",
                        NoManagers, NoExchange)
                /\ pool_managers' = [pool_managers EXCEPT ![k] = NoManagers]
                /\ built' = [built EXCEPT ![k] = {}]
                /\ handed' = [handed EXCEPT ![k] = {}]
                /\ pool_thread' = [pool_thread EXCEPT ![t] = IdleThread]
                /\ pool_lock' = 0
    /\ UNCHANGED <<pool_instances, next_exchange, closed>>

\* remove_account, lines 141-149: exchange.close() under the lock; it returns, or it
\* raises and the error is logged
RemoveAccountClose(t, ok) ==
    /\ UNCHANGED nonPoolVars
    /\ pool_thread[t].pc = "close"
    /\ closed' = IF ok THEN closed \cup {pool_thread[t].exchange} ELSE closed
    /\ pool_thread' = [pool_thread EXCEPT ![t].pc = "delete"]
    /\ pool_ret' = NoPoolRet
    /\ UNCHANGED <<pool_instances, pool_managers, pool_lock, next_exchange, built, handed>>

\* remove_account, lines 150-157: both entries leave the pool
RemoveAccountDelete(t) ==
    /\ UNCHANGED nonPoolVars
    /\ pool_thread[t].pc = "delete"
    /\ LET k == pool_thread[t].key
       IN  /\ pool_instances' = [pool_instances EXCEPT ![k] = NoExchange]
           /\ pool_managers' = [pool_managers EXCEPT ![k] = NoManagers]
           /\ built' = [built EXCEPT ![k] = {}]
           /\ handed' = [handed EXCEPT ![k] = {}]
           /\ pool_ret' = PoolReturn(t, "removed", NoManagers, pool_thread[t].exchange)
    /\ pool_thread' = [pool_thread EXCEPT ![t] = IdleThread]
    /\ pool_lock' = 0
    /\ UNCHANGED <<next_exchange, closed>>

\* clear, lines 162-170: under the lock close every pooled exchange (errors ignored)
\* and empty both maps
Clear(t) ==
    /\ UNCHANGED nonPoolVars
    /\ pool_thread[t].pc = "acquire"
    /\ pool_thread[t].op = "clear"
    /\ CanAcquire(t)
    /\ closed' = closed \cup ({pool_instances[k] : k \in AccountKeys} \ {NoExchange})
    /\ pool_instances' = [k \in AccountKeys |-> NoExchange]
    /\ pool_managers' = [k \in AccountKeys |-> NoManagers]
    /\ built' = [k \in AccountKeys |-> {}]
    /\ handed' = [k \in AccountKeys |-> {}]
    /\ pool_ret' = PoolReturn(t, "cleared", NoManagers, NoExchange)
    /\ pool_thread' = [pool_thread EXCEPT ![t] = IdleThread]
    /\ pool_lock' = 0
    /\ UNCHANGED next_exchange

PoolOps == {"get_managers", "get_exchange", "remove_account"}

PoolNext ==
    \/ \E t \in PoolThreads, op \in PoolOps, k \in AccountKeys : PoolCall(t, op, k)
    \/ \E t \in PoolThreads : PoolCall(t, "clear", "none")
    \/ \E t \in PoolThreads, k \in ConfiguredKeys : PoolCall(t, "get_exchange_instance", k)
    \/ \E t \in PoolThreads : GetManagersEnter(t)
    \/ \E t \in PoolThreads, ok \in BOOLEAN : GetManagersCreate(t, ok)
    \/ \E t \in PoolThreads : GetManagersSave(t)
    \/ \E t \in PoolThreads : GetManagersReturn(t)
    \/ \E t \in PoolThreads : GetExchangeEnter(t)
    \/ \E t \in PoolThreads : RemoveAccountEnter(t)
    \/ \E t \in PoolThreads, ok \in BOOLEAN : RemoveAccountClose(t, ok)
    \/ \E t \in PoolThreads : RemoveAccountDelete(t)
    \/ \E t \in PoolThreads : Clear(t)

(***************************************************************************)
(* The threads of one strategy instance: the event-loop thread that runs    *)
(* the endpoints (start, stop, update) and the cadence worker started by    *)
(* _start_update_thread.  The planning of a tick is abstracted to the       *)
(* number of orders its batch holds; time is counted in half seconds.       *)
(***************************************************************************)

\* orders in one batch, ticks begun, the last instant of the clock
MaxBatch == 2
MaxCycles == 3
MaxClock == 14

\* GRID_CONFIG['ORDER_COOLDOWN'] = 1.5 s, _update_interval = 3.0 s, join(timeout=5.0)
ORDER_COOLDOWN == 3
update_interval == 6
JoinTimeout == 10

TickThreads == {"api", "worker"}
NoTime == -1

NoTick == [pc |-> "none", remaining |-> 0, wake |-> 0, status |-> "none",
           no_price |-> FALSE]
IdleApi == [pc |-> "idle", op |-> "none", deadline |-> 0]
NoWorker == [alive |-> FALSE, pc |-> "none", wake |-> 0]
\* what the last step did: a submission, or the return of an endpoint with its
\* status, is_running as the endpoint found it, the status of the first tick of a
\* start and whether the start spawned a worker
NoTickEvent == [kind |-> "none", thread |-> "none", time |-> 0, prev |-> NoTime,
                status |-> "none", was_running |-> FALSE, first_tick |-> "none",
                no_price |-> FALSE, spawned |-> FALSE]

TickInit ==
    /\ is_running = FALSE
    /\ stop_update_thread = FALSE
    /\ last_order_time = 0
    /\ cycle_count = 0
    /\ clock = ORDER_COOLDOWN
    /\ api = IdleApi
    /\ worker = NoWorker
    /\ tick = [th \in TickThreads |-> NoTick]
    /\ last_submit = NoTime
    /\ tick_event = NoTickEvent
    /\ registered = TRUE

\* the threads that are inside update(), past its is_running check and not yet at
\* its return
InTick == {th \in TickThreads : tick[th].pc \in {"plan", "check", "place", "pause"}}

\* update(), lines 244-247: return 'not_running', or count the cycle and go on
TickBegin(th) ==
    /\ UNCHANGED nonTickVars
    /\ tick[th].pc = "begin"
    /\ IF ~is_running
       THEN /\ tick' = [tick EXCEPT ![th] = [NoTick EXCEPT !.pc = "end",
                                                         !.status = "not_running"]]
            /\ UNCHANGED cycle_count
       ELSE /\ cycle_count < MaxCycles
            /\ cycle_count' = cycle_count + 1
            /\ tick' = [tick EXCEPT ![th].pc = "plan"]
    /\ tick_event' = NoTickEvent
    /\ UNCHANGED <<is_running, stop_update_thread, last_order_time, clock, api, worker,
                   last_submit, registered>>

\* what the market-data reads of a tick can give: prices in both snapshots; no price
\* in the first snapshot, or an exception (lines 252-259, 350-357); prices in the
\* first snapshot and zeros in the one taken after the cancels (lines 330-340)
Snapshots == {"ok", "failed", "late_zero"}

\* update(), lines 250-340: snapshot, plan, cancels, re-snapshot and re-plan; an
\* error ends the tick with status 'error', otherwise a batch of n orders follows;
\* the plan made from zero quotes always has orders (sells just above SAFE_GAP)
TickPlan(th, n, snapshot) ==
    /\ UNCHANGED nonTickVars
    /\ tick[th].pc = "plan"
    /\ snapshot = "late_zero" => n > 0
    /\ tick' = [tick EXCEPT ![th] =
            IF snapshot = "failed" THEN [NoTick EXCEPT !.pc = "end", !.status = "error"]
            ELSE IF n = 0 THEN [NoTick EXCEPT !.pc = "end", !.status = "updated"]
            ELSE [NoTick EXCEPT !.pc = "check", !.remaining = n, !.status = "updated",
                                !.no_price = (snapshot = "late_zero")]]
    /\ tick_event' = NoTickEvent
    /\ UNCHANGED <<is_running, stop_update_thread, last_order_time, cycle_count, clock,
                   api, worker, last_submit, registered>>

\* the time the cooldown check of lines 760-763 sleeps until, given the two reads
CooldownWake(current_time, last) ==
    IF current_time - last < ORDER_COOLDOWN
    THEN current_time + (ORDER_COOLDOWN - (current_time - last))
    ELSE current_time

\* _execute_batch_orders, lines 760-763: read the clock and last_order_time, sleep
\* for what is left of the cooldown
BatchCheck(th) ==
    /\ UNCHANGED nonTickVars
    /\ tick[th].pc = "check"
    /\ tick' = [tick EXCEPT ![th].pc = "place",
                            ![th].wake = CooldownWake(clock, last_order_time)]
    /\ tick_event' = NoTickEvent
    /\ UNCHANGED <<is_running, stop_update_thread, last_order_time, cycle_count, clock,
                   api, worker, last_submit, registered>>

\* _execute_batch_orders, lines 765-791: after the sleep place the order; with an
\* order id in the result stamp last_order_time and sleep the cooldown; an exception
\* is logged and the loop goes on at once.  The venue takes no post-only sell priced
\* from zero quotes
BatchPlace(th, ok) ==
    /\ UNCHANGED nonTickVars
    /\ tick[th].pc = "place"
    /\ clock >= tick[th].wake
    /\ tick[th].no_price => ~ok
    /\ IF ok
       THEN /\ last_order_time' = clock
            /\ last_submit' = clock
            /\ tick_event' = [NoTickEvent EXCEPT !.kind = "submit", !.thread = th,
                                                 !.time = clock, !.prev = last_submit]
            /\ tick' = [tick EXCEPT ![th].pc = "pause",
                                    ![th].wake = clock + ORDER_COOLDOWN]
       ELSE /\ tick_event' = [NoTickEvent EXCEPT !.kind = "place_failed", !.thread = th,
                                                 !.time = clock]
            /\ tick' = [tick EXCEPT ![th].pc = IF tick[th].remaining > 1
                                               THEN "check" ELSE "end",
                                    ![th].remaining = @ - 1]
            /\ UNCHANGED <<last_order_time, last_submit>>
    /\ UNCHANGED <<is_running, stop_update_thread, cycle_count, clock, api, worker,
                   registered>>

\* _execute_batch_orders, line 787: time.sleep(order_cooldown) is over, next order
BatchPause(th) ==
    /\ UNCHANGED nonTickVars
    /\ tick[th].pc = "pause"
    /\ clock >= tick[th].wake
    /\ tick' = [tick EXCEPT ![th].pc = IF tick[th].remaining > 1 THEN "check" ELSE "end",
                            ![th].remaining = @ - 1]
    /\ tick_event' = NoTickEvent
    /\ UNCHANGED <<is_running, stop_update_thread, last_order_time, cycle_count, clock,
                   api, worker, last_submit, registered>>

\* line 129: the first tick of a start failed
FirstTickFailed(status) == status = "error"

\* the return of an endpoint
ApiReturn(kind, status) ==
    [NoTickEvent EXCEPT !.kind = kind, !.thread = "api", !.time = clock,
                        !.status = status, !.was_running = is_running]

\* start(), lines 111-127, called by the create endpoint: refuse when running or
\* without a price, else set the flags and run the first tick on this thread
ApiStart(price_ok) ==
    /\ UNCHANGED nonTickVars
    /\ registered
    /\ api.pc = "idle"
    /\ IF is_running \/ ~price_ok
       THEN /\ tick_event' = ApiReturn("start_return",
                                 IF is_running THEN "already_running" ELSE "error")
            /\ UNCHANGED <<is_running, stop_update_thread, cycle_count, api, tick>>
       ELSE /\ is_running' = TRUE
            /\ stop_update_thread' = FALSE
            /\ cycle_count' = 0
            /\ api' = [IdleApi EXCEPT !.pc = "start_tick", !.op = "start"]
            /\ tick' = [tick EXCEPT !["api"] = [NoTick EXCEPT !.pc = "begin"]]
            /\ tick_event' = NoTickEvent
    /\ UNCHANGED <<last_order_time, clock, worker, last_submit, registered>>

\* the restart endpoint (backend/api/strategy.py, lines 439-468): HTTP 400 for a
\* running instance, else start()
ApiRestart(price_ok) ==
    /\ UNCHANGED nonTickVars
    /\ registered
    /\ api.pc = "idle"
    /\ IF is_running \/ ~price_ok
       THEN /\ tick_event' = ApiReturn("restart_return",
                                 IF is_running THEN "rejected" ELSE "error")
            /\ UNCHANGED <<is_running, stop_update_thread, cycle_count, api, tick>>
       ELSE /\ is_running' = TRUE
            /\ stop_update_thread' = FALSE
            /\ cycle_count' = 0
            /\ api' = [IdleApi EXCEPT !.pc = "start_tick", !.op = "restart"]
            /\ tick' = [tick EXCEPT !["api"] = [NoTick EXCEPT !.pc = "begin"]]
            /\ tick_event' = NoTickEvent
    /\ UNCHANGED <<last_order_time, clock, worker, last_submit, registered>>

\* start(), lines 129-148 with _start_update_thread, lines 211-236: a failed first
\* tick clears is_running; otherwise a worker is started unless one is alive
ApiStartFinish ==
    /\ UNCHANGED nonTickVars
    /\ api.pc = "start_tick"
    /\ tick["api"].pc = "end"
    /\ IF FirstTickFailed(tick["api"].status)
       THEN /\ is_running' = FALSE
            /\ UNCHANGED worker
       ELSE /\ worker' = IF worker.alive THEN worker
                         ELSE [NoWorker EXCEPT !.alive = TRUE, !.pc = "loop"]
            /\ UNCHANGED is_running
    /\ tick_event' = [NoTickEvent EXCEPT
            !.kind = IF api.op = "restart" THEN "restart_return" ELSE "start_return",
            !.thread = "api", !.time = clock,
            !.status = IF FirstTickFailed(tick["api"].status) THEN "error" ELSE "started",
            !.first_tick = tick["api"].status,
            !.no_price = tick["api"].no_price,
            !.spawned = worker'.alive /\ ~worker.alive]
    /\ api' = IdleApi
    /\ tick' = [tick EXCEPT !["api"] = NoTick]
    /\ UNCHANGED <<stop_update_thread, last_order_time, cycle_count, clock, last_submit,
                   registered>>

\* the update endpoint (backend/api/strategy.py, lines 472-490): strategy.update()
\* on the event-loop thread
ApiUpdate ==
    /\ UNCHANGED nonTickVars
    /\ registered
    /\ api.pc = "idle"
    /\ api' = [IdleApi EXCEPT !.pc = "update_tick", !.op = "update"]
    /\ tick' = [tick EXCEPT !["api"] = [NoTick EXCEPT !.pc = "begin"]]
    /\ tick_event' = NoTickEvent
    /\ UNCHANGED <<is_running, stop_update_thread, last_order_time, cycle_count, clock,
                   worker, last_submit, registered>>

\* the update endpoint returns the tick's result
ApiUpdateFinish ==
    /\ UNCHANGED nonTickVars
    /\ api.pc = "update_tick"
    /\ tick["api"].pc = "end"
    /\ api' = IdleApi
    /\ tick' = [tick EXCEPT !["api"] = NoTick]
    /\ tick_event' = ApiReturn("update_return", tick["api"].status)
    /\ UNCHANGED <<is_running, stop_update_thread, last_order_time, cycle_count, clock,
                   worker, last_submit, registered>>

\* stop(), lines 152-158, called by the stop endpoint (op = "stop") or by the delete
\* endpoint for a running instance (op = "delete", strategy.py 517-518): 'not_running'
\* for a stopped instance, else set the stop flag and join the worker for at most 5 s
ApiStop(op) ==
    /\ UNCHANGED nonTickVars
    /\ registered
    /\ api.pc = "idle"
    /\ op = "delete" => is_running
    /\ IF ~is_running
       THEN /\ tick_event' = ApiReturn("stop_return", "not_running")
            /\ UNCHANGED <<stop_update_thread, api>>
       ELSE /\ stop_update_thread' = TRUE
            /\ api' = [pc |-> "stop_join", op |-> op, deadline |-> clock + JoinTimeout]
            /\ tick_event' = NoTickEvent
    /\ UNCHANGED <<is_running, last_order_time, cycle_count, clock, worker, tick,
                   last_submit, registered>>

\* stop(), lines 160-207: the join is over (worker gone, or deadline passed); cancel
\* the open orders and close the position, then clear is_running; when the read of
\* the open orders raises, stop returns an error and leaves is_running set.  The
\* delete endpoint then removes the instance from the registry whatever stop returned
ApiStopFinish(ok) ==
    /\ UNCHANGED nonTickVars
    /\ api.pc = "stop_join"
    /\ ~worker.alive \/ clock >= api.deadline
    /\ is_running' = IF ok THEN FALSE ELSE is_running
    /\ registered' = IF api.op = "delete" THEN FALSE ELSE registered
    /\ api' = IdleApi
    /\ tick_event' = [ApiReturn(IF api.op = "delete" THEN "delete_return" ELSE "stop_return",
                                IF api.op = "delete" THEN "deleted"
                                ELSE IF ok THEN "stopped" ELSE "error")
                        EXCEPT !.first_tick = IF ok THEN "stopped" ELSE "error"]
    /\ UNCHANGED <<stop_update_thread, last_order_time, cycle_count, clock, worker, tick,
                   last_submit>>

\* a delete endpoint that answers but keeps the id in the registry
ApiDelete_KeepId ==
    /\ UNCHANGED nonTickVars
    /\ registered
    /\ api.pc = "idle"
    /\ ~is_running
    /\ tick_event' = ApiReturn("delete_return", "deleted")
    /\ UNCHANGED <<is_running, stop_update_thread, last_order_time, cycle_count, clock,
                   api, worker, tick, last_submit, registered>>

\* the delete endpoint (strategy.py, lines 508-532) for a stopped instance: the id
\* leaves the registry
ApiDelete ==
    /\ UNCHANGED nonTickVars
    /\ registered
    /\ api.pc = "idle"
    /\ ~is_running
    /\ registered' = FALSE
    /\ tick_event' = ApiReturn("delete_return", "deleted")
    /\ UNCHANGED <<is_running, stop_update_thread, last_order_time, cycle_count, clock,
                   api, worker, tick, last_submit>>

\* any endpoint for an id that is not in the registry: HTTP 404
ApiNotFound(op) ==
    /\ UNCHANGED nonTickVars
    /\ ~registered
    /\ api.pc = "idle"
    /\ tick_event' = ApiReturn(op, "not_found")
    /\ UNCHANGED <<is_running, stop_update_thread, last_order_time, cycle_count, clock,
                   api, worker, tick, last_submit, registered>>

\* update_loop, line 217: the loop condition; when it is false the thread leaves the
\* loop for the print of line 234
WorkerLoop ==
    /\ UNCHANGED nonTickVars
    /\ worker.alive
    /\ worker.pc = "loop"
    /\ IF is_running /\ ~stop_update_thread
       THEN /\ worker' = [worker EXCEPT !.pc = "tick"]
            /\ tick' = [tick EXCEPT !["worker"] = [NoTick EXCEPT !.pc = "begin"]]
       ELSE /\ worker' = [worker EXCEPT !.pc = "exit"]
            /\ UNCHANGED tick
    /\ tick_event' = NoTickEvent
    /\ UNCHANGED <<is_running, stop_update_thread, last_order_time, cycle_count, clock,
                   api, last_submit, registered>>

\* update_loop, line 234: the message is printed, the thread function returns and
\* is_alive() turns false
WorkerExit ==
    /\ UNCHANGED nonTickVars
    /\ worker.pc = "exit"
    /\ worker' = NoWorker
    /\ tick_event' = NoTickEvent
    /\ UNCHANGED <<is_running, stop_update_thread, last_order_time, cycle_count, clock,
                   api, tick, last_submit, registered>>

\* update_loop, lines 220-225: the tick returned, sleep the update interval
WorkerTickDone ==
    /\ UNCHANGED nonTickVars
    /\ worker.pc = "tick"
    /\ tick["worker"].pc = "end"
    /\ worker' = [worker EXCEPT !.pc = "sleep", !.wake = clock + update_interval]
    /\ tick' = [tick EXCEPT !["worker"] = NoTick]
    /\ tick_event' = NoTickEvent
    /\ UNCHANGED <<is_running, stop_update_thread, last_order_time, cycle_count, clock,
                   api, last_submit, registered>>

\* update_loop, line 225: the sleep is over
WorkerWake ==
    /\ UNCHANGED nonTickVars
    /\ worker.pc = "sleep"
    /\ clock >= worker.wake
    /\ worker' = [worker EXCEPT !.pc = "loop", !.wake = 0]
    /\ tick_event' = NoTickEvent
    /\ UNCHANGED <<is_running, stop_update_thread, last_order_time, cycle_count, clock,
                   api, tick, last_submit, registered>>

\* half a second passes
ClockTick ==
    /\ UNCHANGED nonTickVars
    /\ clock < MaxClock
    /\ clock' = clock + 1
    /\ tick_event' = NoTickEvent
    /\ UNCHANGED <<is_running, stop_update_thread, last_order_time, cycle_count, api,
                   worker, tick, last_submit, registered>>

TickNext ==
    \/ \E th \in TickThreads : TickBegin(th)
    \/ \E th \in TickThreads, n \in 0..MaxBatch, snapshot \in Snapshots :
            TickPlan(th, n, snapshot)
    \/ \E th \in TickThreads : BatchCheck(th)
    \/ \E th \in TickThreads, ok \in BOOLEAN : BatchPlace(th, ok)
    \/ \E th \in TickThreads : BatchPause(th)
    \/ \E price_ok \in BOOLEAN : ApiStart(price_ok)
    \/ \E price_ok \in BOOLEAN : ApiRestart(price_ok)
    \/ ApiStartFinish
    \/ ApiUpdate
    \/ ApiUpdateFinish
    \/ \E op \in {"stop", "delete"} : ApiStop(op)
    \/ \E ok \in BOOLEAN : ApiStopFinish(ok)
    \/ ApiDelete
    \/ \E op \in {"start_return", "restart_return", "update_return", "stop_return",
                   "delete_return"} : ApiNotFound(op)
    \/ WorkerLoop
    \/ WorkerExit
    \/ WorkerTickDone
    \/ WorkerWake
    \/ ClockTick

(***************************************************************************)
(* The reconciliation tick: update(), _get_market_data,                     *)
(* _calculate_target_prices, _get_position_info, _cancel_order_by_price and *)
(* _execute_batch_orders of SlidingWindowGridStrategy, run by one thread    *)
(* against the venue.  Prices are integers; a position is counted in halves *)
(* of order_size; ratios are exact fractions.                               *)
(***************************************************************************)

\* venue calls that fail in one run, fills in one run, orders the venue accepts
MaxVenueErrors == 1
MaxFills == 1
MaxPlaced == 5

\* the configuration the instance was created with (kwargs of __init__): the percent
\* fields are WINDOW_PERCENT = 0.12 and SELL_RATIO = BUY_RATIO = 0.5
grid_config ==
    [TOTAL_ORDERS |-> 4, WINDOW_PERCENT |-> 12, SELL_RATIO |-> 50, BUY_RATIO |-> 50,
     BASE_PRICE_INTERVAL |-> 10, SAFE_GAP |-> 20, MAX_DRIFT_BUFFER |-> 2000,
     MIN_VALID_PRICE |-> 10000, MAX_MULTIPLIER |-> 15]

\* the far-order budget of one planning call (line 639)
FarCancelBudget == 10
\* halves of order_size in one order_size
PositionUnit == 2

Abs(x) == IF x < 0 THEN -x ELSE x
Min(a, b) == IF a < b THEN a ELSE b
Max(a, b) == IF a > b THEN a ELSE b

\* Decimal.quantize(Decimal('1'), ROUND_UP) of a/b: away from zero (b > 0)
RoundUp(a, b) == IF a >= 0 THEN (a + b - 1) \div b ELSE -(((-a) + b - 1) \div b)
\* Decimal.quantize(Decimal('1'), ROUND_DOWN) of a/b: toward zero (b > 0)
RoundDown(a, b) == IF a >= 0 THEN a \div b ELSE -((-a) \div b)
\* int(round(a/b)) of Python 3 for a >= 0, b > 0: ties go to the even integer
RoundHalfEven(a, b) ==
    LET q == a \div b
        r == a % b
    IN  IF 2 * r < b THEN q
        ELSE IF 2 * r > b THEN q + 1
        ELSE IF q % 2 = 0 THEN q ELSE q + 1

\* a sell_count that ignores the position
SellCount_NoSkew(cfg, pos) == RoundHalfEven(cfg.TOTAL_ORDERS * cfg.SELL_RATIO, 100)

\* sell_count of lines 486-535 for a position of pos halves of order_size
SellCount(cfg, pos) ==
    LET max2 == PositionUnit * cfg.MAX_MULTIPLIER
        den == 100 * max2
        at_limit == Abs(pos) >= max2
        skewed == IF pos > 0 THEN den - cfg.BUY_RATIO * (max2 - Abs(pos))
                  ELSE IF pos < 0 THEN cfg.SELL_RATIO * (max2 - Abs(pos))
                  ELSE cfg.SELL_RATIO * max2
        clamped == Max(10 * max2, Min(90 * max2, skewed))
    IN  IF at_limit /\ pos > 0 THEN cfg.TOTAL_ORDERS
        ELSE IF at_limit /\ pos < 0 THEN 0
        ELSE IF at_limit THEN RoundHalfEven(cfg.TOTAL_ORDERS * cfg.SELL_RATIO, 100)
        ELSE RoundHalfEven(cfg.TOTAL_ORDERS * clamped, den)

\* a sell_start that stays on ask + SAFE_GAP when that is a multiple of the interval
SellStart_NoStep(cfg, ask) ==
    RoundUp(ask + cfg.SAFE_GAP, cfg.BASE_PRICE_INTERVAL) * cfg.BASE_PRICE_INTERVAL

\* sell_start of lines 540-543 and buy_end of lines 553-556
SellStart(cfg, ask) ==
    LET start == RoundUp(ask + cfg.SAFE_GAP, cfg.BASE_PRICE_INTERVAL)
                    * cfg.BASE_PRICE_INTERVAL
    IN  IF start <= ask + cfg.SAFE_GAP THEN start + cfg.BASE_PRICE_INTERVAL ELSE start
BuyEnd(cfg, bid) ==
    LET end == RoundDown(bid - cfg.SAFE_GAP, cfg.BASE_PRICE_INTERVAL)
                    * cfg.BASE_PRICE_INTERVAL
    IN  IF end >= bid - cfg.SAFE_GAP THEN end - cfg.BASE_PRICE_INTERVAL ELSE end

\* price > mid_price + half_window + MAX_DRIFT_BUFFER (line 548), in 400ths
AboveWindow(cfg, ask, bid, price) ==
    400 * price > (200 + cfg.WINDOW_PERCENT) * (ask + bid) + 400 * cfg.MAX_DRIFT_BUFFER
\* price < mid_price - half_window - MAX_DRIFT_BUFFER (line 561)
BelowWindow(cfg, ask, bid, price) ==
    400 * price < (200 - cfg.WINDOW_PERCENT) * (ask + bid) - 400 * cfg.MAX_DRIFT_BUFFER

\* validated_sell_prices and validated_buy_prices, lines 545-573; both loops walk a
\* monotone ladder, so each break cuts the ladder where its test first holds
ValidatedSell(cfg, ask, bid, sell_count) ==
    {p \in {SellStart(cfg, ask) + i * cfg.BASE_PRICE_INTERVAL : i \in 0..(sell_count - 1)} :
        /\ ~AboveWindow(cfg, ask, bid, p)
        /\ p >= ask + cfg.SAFE_GAP}
ValidatedBuy(cfg, ask, bid, buy_count) ==
    {p \in {BuyEnd(cfg, bid) - i * cfg.BASE_PRICE_INTERVAL : i \in 0..(buy_count - 1)} :
        /\ ~BelowWindow(cfg, ask, bid, p)
        /\ p >= cfg.MIN_VALID_PRICE
        /\ p <= bid - cfg.SAFE_GAP}

\* a set of [key, val] records with distinct keys as the sequence of its vals, by key
RECURSIVE SeqByKey(_)
SeqByKey(S) ==
    IF S = {} THEN << >>
    ELSE LET m == CHOOSE x \in S : \A y \in S : x.key <= y.key
         IN  <<m.val>> \o SeqByKey(S \ {m})

SidePrices(orders, side) == {o.price : o \in {x \in orders : x.side = side}}

\* the orders of a (side, price) level after the first listed (orders_list[1:]); the
\* venue and the cache list orders by ascending order id
Duplicates(orders, side, ideal_prices_set) ==
    {o \in orders : /\ o.side = side
                    /\ o.price \in ideal_prices_set
                    /\ \E f \in orders : /\ f.side = side
                                         /\ f.price = o.price
                                         /\ f.order_id < o.order_id}
BigKey == 1000
FirstAtLevel(orders, o) ==
    CHOOSE f \in {x \in orders : x.side = o.side /\ x.price = o.price} :
        \A x \in orders : (x.side = o.side /\ x.price = o.price) => f.order_id <= x.order_id
\* lines 588-604: sell levels in dict order, then buy levels, each after its first order
DuplicateCancels(orders, ideal_prices_set) ==
    SeqByKey({[key |-> (IF o.side = "sell" THEN 0 ELSE BigKey * BigKey)
                        + BigKey * FirstAtLevel(orders, o).order_id + o.order_id,
               val |-> [type |-> o.side, price |-> o.price, order_id |-> o.order_id]] :
              o \in Duplicates(orders, "sell", ideal_prices_set)
                        \cup Duplicates(orders, "buy", ideal_prices_set)})

\* the far candidates of lines 612-634: existing prices outside the ideal set and at
\* least 2 * SAFE_GAP from mid, farthest first; ties keep the order of all_far (sells
\* by ascending price, then buys by descending price)
FarCandidates(cfg, ask, bid, existing_sell, existing_buy, ideal_prices_set) ==
    LET far_sell == existing_sell \ ideal_prices_set
        far_buy == existing_buy \ ideal_prices_set
        Dist2(p) == Abs(2 * p - (ask + bid))
        Index(type, p) == IF type = "sell"
                          THEN Cardinality({q \in far_sell : q < p})
                          ELSE Cardinality(far_sell) + Cardinality({q \in far_buy : q > p})
        all_far == {[type |-> "sell", price |-> p] : p \in far_sell}
                        \cup {[type |-> "buy", price |-> p] : p \in far_buy}
    IN  SeqByKey({[key |-> Index(c.type, c.price) - BigKey * Dist2(c.price),
                   val |-> [type |-> c.type, price |-> c.price, order_id |-> 0]] :
                  c \in {x \in all_far : Dist2(x.price) >= 4 * cfg.SAFE_GAP}})

\* a planning call that takes far orders whatever it has queued
BudgetSpent_Never(queued) == queued < 0

\* line 639: the planning call stops taking far orders at 10 queued cancels
BudgetSpent(queued) == queued >= FarCancelBudget

\* the loop of lines 638-643 over the far candidates
RECURSIVE TakeFar(_, _, _)
TakeFar(orders_to_cancel, far, excess) ==
    IF far = << >> \/ BudgetSpent(Len(orders_to_cancel)) \/ Len(orders_to_cancel) >= excess
    THEN orders_to_cancel
    ELSE TakeFar(Append(orders_to_cancel, Head(far)), Tail(far), excess)

\* _calculate_target_prices under the configuration cfg, for the snapshot md and the
\* position pos that _get_position_info returned
CalculateWith(cfg, md, pos) ==
    LET sell_count == SellCount(cfg, pos)
        buy_count == cfg.TOTAL_ORDERS - sell_count
        validated_sell == ValidatedSell(cfg, md.ask_price, md.bid_price, sell_count)
        validated_buy == ValidatedBuy(cfg, md.ask_price, md.bid_price, buy_count)
        ideal_prices_set == validated_sell \cup validated_buy
        existing_sell == SidePrices(md.orders, "sell")
        existing_buy == SidePrices(md.orders, "buy")
        current_unique_prices == Cardinality(existing_sell) + Cardinality(existing_buy)
        duplicates == DuplicateCancels(md.orders, ideal_prices_set)
        far == FarCandidates(cfg, md.ask_price, md.bid_price, existing_sell,
                             existing_buy, ideal_prices_set)
        excess == current_unique_prices - cfg.TOTAL_ORDERS
        over == \/ current_unique_prices > cfg.TOTAL_ORDERS
                \/ Cardinality(existing_sell) > sell_count
                \/ Cardinality(existing_buy) > buy_count
    IN  [sell_count |-> sell_count,
         buy_count |-> buy_count,
         ideal_prices_set |-> ideal_prices_set,
         sell_prices |-> validated_sell \ existing_sell,
         buy_prices |-> validated_buy \ existing_buy,
         cancel_orders |-> IF over THEN TakeFar(duplicates, far, excess) ELSE duplicates,
         far_candidates |-> IF over THEN Len(far) ELSE 0,
         excess |-> excess]

\* a strategy that plans with no safety gap
CalculateTargetPrices_NoGap(md, pos) ==
    CalculateWith([grid_config EXCEPT !.SAFE_GAP = 0], md, pos)

\* _calculate_target_prices: cfg = self.grid_config
CalculateTargetPrices(md, pos) == CalculateWith(grid_config, md, pos)

\* the batch of _execute_batch_orders, lines 746-749: the buys (downwards from
\* buy_end), then the sells (upwards from sell_start)
BatchOrders(plan) ==
    SeqByKey({[key |-> -p, val |-> [type |-> "buy", price |-> p]] : p \in plan.buy_prices})
        \o SeqByKey({[key |-> p, val |-> [type |-> "sell", price |-> p]] :
                     p \in plan.sell_prices})

FarQueued(cancel_orders) ==
    Cardinality({i \in DOMAIN cancel_orders : cancel_orders[i].order_id = 0})
DuplicatesQueued(cancel_orders) ==
    Cardinality({i \in DOMAIN cancel_orders : cancel_orders[i].order_id # 0})

\* the (bid, ask) pairs the venue quotes, in the order it quotes them
QuotePath == <<(<<50000, 50010>>), (<<50005, 50013>>)>>
\* positions an account may hold when the instance starts, in halves of order_size:
\* flat, 5 lots, 14.5 lots, 15 lots long, 15 lots short
InitialPositions == {0, 10, 29, 30, -30}
\* orders a previous run left on the account: eight far sells, eight far buys, and
\* twelve buys stacked on one level by ticks whose open-orders reads failed
LeftoverFar == 8
LeftoverStack == 12
LeftoverCount == 2 * LeftoverFar + LeftoverStack
LeftoverBook ==
    {[order_id |-> i, side |-> "sell", price |-> 52000 + 100 * (i - 1)] :
            i \in 1..LeftoverFar}
    \cup {[order_id |-> LeftoverFar + i, side |-> "buy", price |-> 48000 - 100 * (i - 1)] :
            i \in 1..LeftoverFar}
    \cup {[order_id |-> 2 * LeftoverFar + i, side |-> "buy", price |-> 49970] :
            i \in 1..LeftoverStack}

NoPlan == [sell_count |-> 0, buy_count |-> 0, ideal_prices_set |-> {}, sell_prices |-> {},
           buy_prices |-> {}, cancel_orders |-> << >>, far_candidates |-> 0, excess |-> 0]
IdleGrid == [pc |-> "idle", ask |-> 0, bid |-> 0, position_read |-> 0,
             position_real |-> 0, cancel_queue |-> << >>, order_queue |-> << >>]
NoGridEvent == [kind |-> "none", side |-> "none", price |-> 0, ok |-> FALSE,
                ask |-> 0, bid |-> 0, position_read |-> 0, position_real |-> 0,
                orders |-> {}, plan |-> NoPlan, failed |-> FALSE, status |-> "none"]

\* the strategy and its account before anything happened: flat, no open order
GridAtRest ==
    /\ bid_price = 50000
    /\ ask_price = 50010
    /\ venue_position = 0
    /\ book = {}
    /\ grid_next_id = LeftoverCount + 1
    /\ grid_cache = [valid |-> FALSE, orders |-> {}]
    /\ pm_positions = [known |-> FALSE, quantity |-> 0]
    /\ grid = IdleGrid
    /\ grid_event = NoGridEvent
    /\ venue_errors = 0
    /\ fills = 0
    /\ most_duplicates = 0
    /\ lost_orders = {}

\* the account the instance is started on: any of the positions without open
\* orders, or flat or long at the cap with the leftover orders
GridInit ==
    /\ bid_price = 50000
    /\ ask_price = 50010
    /\ \/ venue_position \in InitialPositions /\ book = {}
       \/ venue_position \in {0, PositionUnit * grid_config.MAX_MULTIPLIER}
            /\ book = LeftoverBook
    /\ grid_next_id = LeftoverCount + 1
    /\ grid_cache = [valid |-> FALSE, orders |-> {}]
    /\ pm_positions = [known |-> FALSE, quantity |-> 0]
    /\ grid = IdleGrid
    /\ grid_event = NoGridEvent
    /\ venue_errors = 0
    /\ fills = 0
    /\ most_duplicates = 0
    /\ lost_orders = {}

\* get_ticker of the wrapper (exchanges/extended.py, 501-598) as the tick reads it: the
\* quotes; the last price (a trade at the bid) for both sides when the depth read
\* failed; zeros when the ticker read failed
TickerModes == {"ok", "last", "failed"}
TickerRead(mode) ==
    CASE mode = "ok" -> [ask_price |-> ask_price, bid_price |-> bid_price]
      [] mode = "last" -> [ask_price |-> bid_price, bid_price |-> bid_price]
      [] OTHER -> [ask_price |-> 0, bid_price |-> 0]

\* get_open_orders(symbol) through the adapter's cache: the cached orders while the
\* cache is valid, else the venue's list (which rebuilds the cache), else an error
OrdersRead(ok) ==
    IF grid_cache.valid
    THEN [ok |-> TRUE, orders |-> grid_cache.orders, cache |-> grid_cache, failed |-> FALSE]
    ELSE IF ok
    THEN [ok |-> TRUE, orders |-> book, cache |-> [valid |-> TRUE, orders |-> book],
          failed |-> FALSE]
    ELSE [ok |-> FALSE, orders |-> {}, cache |-> grid_cache, failed |-> TRUE]

\* _get_position_info over PositionManager.get_position: the venue's position; a zero
\* position when the venue's position list could not be read (the adapter returns an
\* empty list after its retries, the wrapper a zero-quantity position, which is
\* cached); the cached position, or zero, when the read raised
PositionModes == {"ok", "empty", "raised"}
PositionRead(mode) ==
    CASE mode = "ok" -> [quantity |-> venue_position,
                         cache |-> [known |-> TRUE, quantity |-> venue_position],
                         failed |-> FALSE]
      [] mode = "empty" -> [quantity |-> 0, cache |-> [known |-> TRUE, quantity |-> 0],
                            failed |-> TRUE]
      [] OTHER -> [quantity |-> IF pm_positions.known THEN pm_positions.quantity ELSE 0,
                   cache |-> pm_positions, failed |-> TRUE]

Failures(flags) == Cardinality({i \in DOMAIN flags : flags[i]})

\* update(), lines 246-269: first snapshot, the no-price guard, the position and the
\* plan; the tick then walks the cancel queue
GridPlan(ticker_mode, orders_ok, position_mode) ==
    /\ UNCHANGED nonGridVars
    /\ grid.pc = "idle"
    /\ orders_ok \/ ~grid_cache.valid
    /\ LET t == TickerRead(ticker_mode)
           o == OrdersRead(orders_ok)
           md == [ask_price |-> t.ask_price, bid_price |-> t.bid_price, orders |-> o.orders]
           pr == PositionRead(position_mode)
           plan == CalculateTargetPrices(md, pr.quantity)
       IN  IF t.ask_price = 0 \/ t.bid_price = 0
           THEN /\ position_mode = "ok"
                /\ venue_errors' = venue_errors + Failures(<<ticker_mode # "ok", o.failed>>)
                /\ venue_errors' <= MaxVenueErrors
                /\ grid_cache' = o.cache
                /\ grid_event' = [NoGridEvent EXCEPT !.kind = "no_price"]
                /\ UNCHANGED <<pm_positions, grid, most_duplicates>>
           ELSE /\ venue_errors' = venue_errors
                        + Failures(<<ticker_mode # "ok", o.failed, pr.failed>>)
                /\ venue_errors' <= MaxVenueErrors
                /\ grid_cache' = o.cache
                /\ pm_positions' = pr.cache
                /\ grid' = [pc |-> IF plan.cancel_orders = << >> THEN "replan" ELSE "cancel",
                            ask |-> t.ask_price, bid |-> t.bid_price,
                            position_read |-> pr.quantity,
                            position_real |-> venue_position,
                            cancel_queue |-> plan.cancel_orders,
                            order_queue |-> << >>]
                /\ grid_event' = [NoGridEvent EXCEPT
                                    !.kind = "plan", !.ask = t.ask_price,
                                    !.bid = t.bid_price, !.position_read = pr.quantity,
                                    !.position_real = venue_position,
                                    !.orders = o.orders, !.plan = plan]
                /\ most_duplicates' = Max(most_duplicates,
                                          DuplicatesQueued(plan.cancel_orders))
    /\ UNCHANGED <<bid_price, ask_price, venue_position, book, grid_next_id, fills,
                   lost_orders>>

\* update(), lines 271-327: one entry of the cancel queue.  A duplicate is cancelled
\* by its id; a far entry within interval * MAX_MULTIPLIER / 4 of mid is skipped, any
\* other goes through _cancel_order_by_price (lines 694-742): read the open orders,
\* cancel the first order of that side and price
GridCancel(ok, orders_ok) ==
    /\ UNCHANGED nonGridVars
    /\ grid.pc = "cancel"
    /\ LET c == Head(grid.cancel_queue)
           by_id == c.order_id # 0
           skipped == /\ ~by_id
                      /\ 2 * Abs(2 * c.price - (grid.ask + grid.bid))
                            <= grid_config.BASE_PRICE_INTERVAL * grid_config.MAX_MULTIPLIER
           r == IF by_id \/ skipped
                THEN [ok |-> TRUE, orders |-> {}, cache |-> grid_cache, failed |-> FALSE]
                ELSE OrdersRead(orders_ok)
           matching == {x \in r.orders : x.side = c.type /\ x.price = c.price}
           targets == IF by_id THEN {x \in book : x.order_id = c.order_id}
                      ELSE IF skipped \/ ~r.ok \/ matching = {} THEN {}
                      ELSE {CHOOSE x \in matching :
                                \A y \in matching : x.order_id <= y.order_id}
           attempted == by_id \/ targets # {}
           done == ok /\ targets # {} /\ targets \subseteq book
           rest == Tail(grid.cancel_queue)
       IN  /\ orders_ok \/ (~by_id /\ ~skipped /\ ~grid_cache.valid)
           /\ ok \/ attempted
           /\ venue_errors' = venue_errors + Failures(<<r.failed, ~ok>>)
           /\ venue_errors' <= MaxVenueErrors
           /\ book' = IF done THEN book \ targets ELSE book
           /\ grid_cache' = IF done
                            THEN [valid |-> TRUE, orders |-> r.cache.orders \ targets]
                            ELSE r.cache
           /\ grid' = [grid EXCEPT !.pc = IF rest = << >> THEN "replan" ELSE "cancel",
                                   !.cancel_queue = rest]
           /\ grid_event' = [NoGridEvent EXCEPT !.kind = "cancel", !.side = c.type,
                                                !.price = c.price, !.ok = done,
                                                !.failed = ~ok]
    /\ UNCHANGED <<bid_price, ask_price, venue_position, grid_next_id, pm_positions,
                   fills, most_duplicates, lost_orders>>

\* update(), lines 329-341: the second snapshot and plan (no price guard here), whose
\* new prices become the batch of _execute_batch_orders
GridReplan(ticker_mode, orders_ok, position_mode) ==
    /\ UNCHANGED nonGridVars
    /\ grid.pc = "replan"
    /\ orders_ok \/ ~grid_cache.valid
    /\ LET t == TickerRead(ticker_mode)
           o == OrdersRead(orders_ok)
           md == [ask_price |-> t.ask_price, bid_price |-> t.bid_price, orders |-> o.orders]
           pr == PositionRead(position_mode)
           plan == CalculateTargetPrices(md, pr.quantity)
           orders == BatchOrders(plan)
       IN  /\ venue_errors' = venue_errors
                    + Failures(<<ticker_mode # "ok", o.failed, pr.failed>>)
           /\ venue_errors' <= MaxVenueErrors
           /\ grid_cache' = o.cache
           /\ pm_positions' = pr.cache
           /\ grid' = IF orders = << >> THEN IdleGrid
                      ELSE [pc |-> "submit", ask |-> t.ask_price, bid |-> t.bid_price,
                            position_read |-> pr.quantity,
                            position_real |-> venue_position,
                            cancel_queue |-> << >>, order_queue |-> orders]
           /\ grid_event' = [NoGridEvent EXCEPT
                               !.kind = "replan", !.ask = t.ask_price,
                               !.bid = t.bid_price, !.position_read = pr.quantity,
                               !.position_real = venue_position,
                               !.orders = o.orders, !.plan = plan,
                               !.status = IF orders = << >> THEN "updated" ELSE "none"]
    /\ UNCHANGED <<bid_price, ask_price, venue_position, book, grid_next_id, fills,
                   most_duplicates, lost_orders>>

\* a batch that is given up at the first placement that raises
RemainingBatch_Abort(order_queue, ok) == IF ok THEN Tail(order_queue) ELSE << >>

\* _execute_batch_orders, lines 757-790: the try/except lies inside the for loop, so
\* the loop goes on to the next order whether place_order returned or raised
RemainingBatch(order_queue, ok) == Tail(order_queue)

\* _execute_batch_orders, lines 751-793: one order of the batch.  The venue takes a
\* post-only order that does not cross its live quotes; an accepted order enters the
\* book and the adapter's cache
GridSubmit(ok) ==
    /\ UNCHANGED nonGridVars
    /\ grid.pc = "submit"
    /\ LET o == Head(grid.order_queue)
           rest == RemainingBatch(grid.order_queue, ok)
           resting == IF o.type = "buy" THEN o.price < ask_price ELSE o.price > bid_price
           accepted == ok /\ resting /\ grid_next_id <= LeftoverCount + MaxPlaced
           order == [order_id |-> grid_next_id, side |-> o.type, price |-> o.price]
       IN  /\ venue_errors' = venue_errors + Failures(<<~ok>>)
           /\ venue_errors' <= MaxVenueErrors
           /\ book' = IF accepted THEN book \cup {order} ELSE book
           /\ grid_cache' = IF accepted
                            THEN [valid |-> TRUE, orders |-> grid_cache.orders \cup {order}]
                            ELSE grid_cache
           /\ grid_next_id' = IF accepted THEN grid_next_id + 1 ELSE grid_next_id
           /\ grid' = IF rest = << >> THEN IdleGrid ELSE [grid EXCEPT !.order_queue = rest]
           /\ grid_event' = [NoGridEvent EXCEPT
                               !.kind = "submit", !.side = o.type, !.price = o.price,
                               !.ok = accepted, !.ask = grid.ask, !.bid = grid.bid,
                               !.position_read = grid.position_read,
                               !.position_real = grid.position_real,
                               !.failed = ~ok,
                               !.status = IF rest = << >> THEN "updated" ELSE "none"]
    /\ UNCHANGED <<bid_price, ask_price, venue_position, pm_positions, fills,
                   most_duplicates, lost_orders>>

\* _execute_batch_orders, lines 751-793, for a place_order that times out at the
\* caller (exchanges/extended.py lines 206, 216, 240-243) after the venue took the
\* order: the exception is printed like any failure, the order rests in the book, and
\* create_order never reaches its cache write (jiaoyisuoshili/extended.py 1039-1043);
\* the 60 s the caller waited are longer than the cache's 5 s lifetime
GridSubmitTimeout ==
    /\ UNCHANGED nonGridVars
    /\ grid.pc = "submit"
    /\ LET o == Head(grid.order_queue)
           rest == RemainingBatch(grid.order_queue, FALSE)
           resting == IF o.type = "buy" THEN o.price < ask_price ELSE o.price > bid_price
           order == [order_id |-> grid_next_id, side |-> o.type, price |-> o.price]
       IN  /\ resting
           /\ grid_next_id <= LeftoverCount + MaxPlaced
           /\ venue_errors' = venue_errors + 1
           /\ venue_errors' <= MaxVenueErrors
           /\ book' = book \cup {order}
           /\ lost_orders' = lost_orders \cup {grid_next_id}
           /\ grid_cache' = [grid_cache EXCEPT !.valid = FALSE]
           /\ grid_next_id' = grid_next_id + 1
           /\ grid' = IF rest = << >> THEN IdleGrid ELSE [grid EXCEPT !.order_queue = rest]
           /\ grid_event' = [NoGridEvent EXCEPT
                               !.kind = "submit", !.side = o.type, !.price = o.price,
                               !.ok = FALSE, !.ask = grid.ask, !.bid = grid.bid,
                               !.position_read = grid.position_read,
                               !.position_real = grid.position_real,
                               !.failed = TRUE,
                               !.status = IF rest = << >> THEN "updated" ELSE "none"]
    /\ UNCHANGED <<bid_price, ask_price, venue_position, pm_positions, fills,
                   most_duplicates>>

\* the venue's quotes move to the next pair
QuoteMove ==
    /\ UNCHANGED nonGridVars
    /\ \E i \in 1..(Len(QuotePath) - 1) :
        /\ QuotePath[i] = <<bid_price, ask_price>>
        /\ bid_price' = QuotePath[i + 1][1]
        /\ ask_price' = QuotePath[i + 1][2]
    /\ grid_event' = NoGridEvent
    /\ UNCHANGED <<venue_position, book, grid_next_id, grid_cache, pm_positions, grid,
                   venue_errors, fills, most_duplicates, lost_orders>>

\* the venue fills the best resting order of a side: one order_size joins or leaves
\* the position
Fill(side) ==
    /\ UNCHANGED nonGridVars
    /\ fills < MaxFills
    /\ \E o \in book :
        /\ o.side = side
        /\ \A x \in book : x.side = side =>
                \/ (IF side = "buy" THEN x.price < o.price ELSE x.price > o.price)
                \/ (x.price = o.price /\ x.order_id >= o.order_id)
        /\ book' = book \ {o}
    /\ venue_position' = IF side = "buy" THEN venue_position + PositionUnit
                         ELSE venue_position - PositionUnit
    /\ fills' = fills + 1
    /\ grid_event' = NoGridEvent
    /\ UNCHANGED <<bid_price, ask_price, grid_next_id, grid_cache, pm_positions, grid,
                   venue_errors, most_duplicates, lost_orders>>

\* orders_cache_ttl passes without a placement or cancel: the cache is no longer valid
CacheExpire ==
    /\ UNCHANGED nonGridVars
    /\ grid_cache.valid
    /\ grid_cache' = [grid_cache EXCEPT !.valid = FALSE]
    /\ grid_event' = NoGridEvent
    /\ UNCHANGED <<bid_price, ask_price, venue_position, book, grid_next_id, pm_positions,
                   grid, venue_errors, fills, most_duplicates, lost_orders>>

GridNext ==
    \/ \E ticker_mode \in TickerModes, orders_ok \in BOOLEAN, position_mode \in PositionModes :
            GridPlan(ticker_mode, orders_ok, position_mode)
    \/ \E ok \in BOOLEAN, orders_ok \in BOOLEAN : GridCancel(ok, orders_ok)
    \/ \E ticker_mode \in TickerModes, orders_ok \in BOOLEAN, position_mode \in PositionModes :
            GridReplan(ticker_mode, orders_ok, position_mode)
    \/ \E ok \in BOOLEAN : GridSubmit(ok)
    \/ GridSubmitTimeout
    \/ QuoteMove
    \/ \E side \in {"buy", "sell"} : Fill(side)
    \/ CacheExpire

(***************************************************************************)
(* The depth stream of one symbol: Extended.get_depth                       *)
(* (jiaoyisuoshili/extended.py, lines 530-775) over the WebSocket order     *)
(* book of the SDK.  Time is in milliseconds.                               *)
(***************************************************************************)

\* the clock stops here; the clock moves on its own at most this many times
MaxDepthClock == 46000
MaxDepthAdvances == 3

\* line 609 (30.0 s), line 590 (sleep 2 s), line 681 (20 empty reads)
StallLimit == 30000
EmptyWait == 2000
EmptyLimit == 20

\* the best bid/ask pairs the venue can quote, by number; 0 is no best bid or ask
Quotes == {1, 2}
NoQuote == 0
\* the clock moves by these amounts between two calls
DepthSteps == {1, 29999}
\* get_depth(symbol, limit): the ticker asks for one level, the depth endpoint for 20
Limits == {1, 20}

NoLastPrices == [known |-> FALSE, quote |-> NoQuote, timestamp |-> 0]
NoDepthEvent == [kind |-> "none", limit |-> 0, subscribed |-> FALSE, creating |-> FALSE,
                 seen |-> NoQuote, same |-> FALSE, age |-> 0, stalled |-> FALSE,
                 recreate |-> FALSE, run |-> 0, source |-> "none"]

DepthInit ==
    /\ orderbooks = FALSE
    /\ stream_best = NoQuote
    /\ last_depth_prices = NoLastPrices
    /\ orderbook_empty_count = 0
    /\ depth_clock = 0
    /\ depth_advances = 0
    /\ empty_run = 0
    /\ depth_event = NoDepthEvent

\* a stall test that lets one more millisecond pass
StallExpired_Late(age) == age > StallLimit + 1

\* line 609: current_time - last_timestamp > 30.0
StallExpired(age) == age > StallLimit

\* get_depth, lines 543-775, as one call.  create_ok: OrderBook.create succeeded when
\* the symbol had no order book; first: the best pair the order book shows at line
\* 588 when it was just created; arrived: the pair it shows at line 594 after the
\* 2 s wait of line 590.  The answer comes from the order book (limit = 1, lines
\* 663-671) or from the REST snapshot of lines 700-757
GetDepth(limit, create_ok, first, arrived) ==
    /\ UNCHANGED nonDepthVars
    /\ LET creating == ~orderbooks
           have_book == orderbooks \/ create_ok
           shown == IF orderbooks THEN stream_best ELSE first
           waited == have_book /\ shown = NoQuote
           seen == IF ~have_book THEN NoQuote
                   ELSE IF waited THEN arrived ELSE shown
           current_time == depth_clock + (IF waited THEN EmptyWait ELSE 0)
           same == /\ seen # NoQuote
                   /\ last_depth_prices.known
                   /\ last_depth_prices.quote = seen
           age == current_time - last_depth_prices.timestamp
           stalled == same /\ StallExpired(age)
           stream_return == seen # NoQuote /\ ~stalled /\ limit = 1
           empty_count == orderbook_empty_count + 1
           recreate == have_book /\ seen = NoQuote /\ empty_count >= EmptyLimit
           dropped == stalled \/ recreate
       IN  /\ orderbooks \/ first = arrived \/ first = NoQuote
           /\ ~have_book => first = NoQuote
           /\ (have_book /\ ~waited) => arrived = shown
           /\ orderbooks => create_ok
           /\ current_time <= MaxDepthClock
           /\ depth_clock' = current_time
           /\ orderbooks' = (have_book /\ ~dropped)
           /\ stream_best' = IF have_book /\ ~dropped THEN seen ELSE NoQuote
           /\ last_depth_prices' =
                IF seen # NoQuote /\ ~same
                THEN [known |-> TRUE, quote |-> seen, timestamp |-> current_time]
                ELSE last_depth_prices
           /\ orderbook_empty_count' =
                IF ~have_book THEN orderbook_empty_count
                ELSE IF seen = NoQuote THEN (IF recreate THEN 0 ELSE empty_count)
                ELSE IF stream_return THEN orderbook_empty_count
                ELSE 0
           /\ empty_run' = IF ~have_book THEN empty_run
                           ELSE IF seen # NoQuote \/ recreate THEN 0
                           ELSE empty_run + 1
           /\ depth_event' =
                [kind |-> "depth", limit |-> limit, subscribed |-> orderbooks,
                 creating |-> creating, seen |-> seen, same |-> same,
                 age |-> IF same THEN age ELSE 0, stalled |-> stalled,
                 recreate |-> recreate,
                 run |-> IF have_book /\ seen = NoQuote THEN empty_run + 1 ELSE 0,
                 source |-> IF stream_return THEN "stream" ELSE "rest"]
    /\ UNCHANGED depth_advances

\* the order book follows the venue's stream: a new best pair, or none
StreamUpdate(quote) ==
    /\ UNCHANGED nonDepthVars
    /\ orderbooks
    /\ stream_best # quote
    /\ stream_best' = quote
    /\ depth_event' = NoDepthEvent
    /\ UNCHANGED <<orderbooks, last_depth_prices, orderbook_empty_count, depth_clock,
                   depth_advances, empty_run>>

\* time passes between two calls
DepthAdvance(d) ==
    /\ UNCHANGED nonDepthVars
    /\ depth_advances < MaxDepthAdvances
    /\ depth_clock + d <= MaxDepthClock
    /\ depth_clock' = depth_clock + d
    /\ depth_advances' = depth_advances + 1
    /\ depth_event' = NoDepthEvent
    /\ UNCHANGED <<orderbooks, stream_best, last_depth_prices, orderbook_empty_count,
                   empty_run>>

\* a venue whose stream delivers a pair within the wait of every read: reads at
\* chosen distances in time
DepthNext ==
    \/ \E limit \in Limits, create_ok \in BOOLEAN, first \in Quotes \cup {NoQuote},
          arrived \in Quotes :
            GetDepth(limit, create_ok, first, arrived)
    \/ \E quote \in Quotes : StreamUpdate(quote)
    \/ \E d \in DepthSteps : DepthAdvance(d)

\* a venue whose stream comes and goes with one pair: reads back to back
EmptyStreamNext ==
    \/ \E limit \in Limits, create_ok \in BOOLEAN, first \in {NoQuote, 1},
          arrived \in {NoQuote, 1} :
            GetDepth(limit, create_ok, first, arrived)
    \/ \E quote \in {NoQuote, 1} : StreamUpdate(quote)

(***************************************************************************)
(* Symbol normalization: ExtendedExchange.normalize_symbol                  *)
(* (exchanges/extended.py, lines 419-426) and normalize_symbol of the       *)
(* strategy endpoints (backend/api/strategy.py, lines 28-67).  A symbol is  *)
(* a sequence of characters; "USD" and "usd" stand for their three          *)
(* letters, which no operation here takes apart.                            *)
(***************************************************************************)

\* the longest symbol a request carries
MaxSymbolLen == 4

Characters == {"B", "b", "-", "/", " ", "USD", "T", "usd"}
Symbols_(n) == UNION {[1..k -> Characters] : k \in 0..n}
\* default_market of the account's configuration; << >> when the request names no
\* configured exchange
DefaultMarkets == {<< >>, <<"B", "-", "USD">>, <<"B", "-", "USD", "T">>}

\* str.upper()
UpperChar(c) == CASE c = "b" -> "B" [] c = "usd" -> "USD" [] OTHER -> c
Upper(s) == [i \in DOMAIN s |-> UpperChar(s[i])]

\* str.strip()
RECURSIVE Strip(_)
Strip(s) ==
    IF s = << >> THEN s
    ELSE IF Head(s) = " " THEN Strip(Tail(s))
    ELSE IF s[Len(s)] = " " THEN Strip(SubSeq(s, 1, Len(s) - 1))
    ELSE s

\* str.endswith(suffix)
EndsWith(s, suffix) ==
    /\ Len(s) >= Len(suffix)
    /\ SubSeq(s, Len(s) - Len(suffix) + 1, Len(s)) = suffix

\* str.replace(old, new): every occurrence, left to right
RECURSIVE Replace(_, _, _)
Replace(s, old, new) ==
    IF Len(s) < Len(old) THEN s
    ELSE IF SubSeq(s, 1, Len(old)) = old
    THEN new \o Replace(SubSeq(s, Len(old) + 1, Len(s)), old, new)
    ELSE <<Head(s)>> \o Replace(Tail(s), old, new)

\* str.split('-')[-1]
RECURSIVE LastField(_)
LastField(s) ==
    IF s = << >> \/ s[Len(s)] = "-" THEN << >>
    ELSE Append(LastField(SubSeq(s, 1, Len(s) - 1)), s[Len(s)])

Contains(s, c) == \E i \in DOMAIN s : s[i] = c

\* ExtendedExchange.normalize_symbol, exchanges/extended.py lines 419-426
NormalizeSymbol(s) ==
    LET u == Upper(Replace(s, <<"/">>, <<"-">>))
    IN  IF EndsWith(u, <<"-", "USD", "T">>)
        THEN Replace(u, <<"-", "USD", "T">>, <<"-", "USD">>)
        ELSE u

\* normalize_symbol of backend/api/strategy.py, lines 28-67, for an account whose
\* configuration has the default market market
ApiNormalizeSymbol(s, market) ==
    LET u == Upper(Strip(s))
        d == Replace(u, <<"/">>, <<"-">>)
        quote_currency == IF Contains(market, "-") THEN LastField(market) ELSE <<"USD">>
    IN  IF Contains(u, "-") \/ Contains(u, "/")
        THEN IF EndsWith(d, <<"-", "USD", "T">>)
             THEN Replace(d, <<"-", "USD", "T">>, <<"-", "USD">>)
             ELSE d
        ELSE u \o <<"-">> \o quote_currency

NotNormalized == [by |-> "none", once |-> << >>, twice |-> << >>]

\* no request
SymbolAtRest ==
    /\ raw_symbol = << >>
    /\ default_market = << >>
    /\ normalized = NotNormalized

\* a request with any symbol, on an account with any of the default markets
SymbolInit ==
    /\ raw_symbol \in Symbols_(MaxSymbolLen)
    /\ default_market \in DefaultMarkets
    /\ normalized = NotNormalized

\* the adapter normalizes the symbol of a call, and the result once more
AdapterNormalize ==
    /\ UNCHANGED nonSymbolVars
    /\ normalized.by = "none"
    /\ normalized' = [by |-> "adapter", once |-> NormalizeSymbol(raw_symbol),
                      twice |-> NormalizeSymbol(NormalizeSymbol(raw_symbol))]
    /\ UNCHANGED <<raw_symbol, default_market>>

\* the strategy endpoint normalizes the symbol of a request, and the result once more
ApiNormalize ==
    /\ UNCHANGED nonSymbolVars
    /\ normalized.by = "none"
    /\ normalized' =
        [by |-> "api", once |-> ApiNormalizeSymbol(raw_symbol, default_market),
         twice |-> ApiNormalizeSymbol(ApiNormalizeSymbol(raw_symbol, default_market),
                                      default_market)]
    /\ UNCHANGED <<raw_symbol, default_market>>

SymbolNext == AdapterNormalize \/ ApiNormalize

(***************************************************************************)
(* The configuration store: ConfigManager (core/config_manager.py).        *)
(* A name or key is a sequence of tokens: "ext_1" is <<"ext", "1">>.  The   *)
(* store is what _load_config returns: the legacy layout is one record at  *)
(* the top level (single), the keyed layout maps account keys to records.  *)
(* No account is named "name" or "api_key", so a keyed store is never      *)
(* taken for a legacy one.                                                 *)
(***************************************************************************)

\* the largest suffix n of a generated key venue_n
MaxSuffix == 2

\* exchange names, as the endpoint passes them (backend/api/config.py line 82)
Venues == {<<"ext">>, <<"ext", "1">>}
\* str(counter)
Decimal(counter) == <<"1", "2", "3", "4", "5">>[counter]
\* exchange_name for counter 0, else f"{exchange_name}_{counter}"
KeyOf(exchange_name, counter) ==
    IF counter = 0 THEN exchange_name ELSE Append(exchange_name, Decimal(counter))
ConfigKeys == {KeyOf(v, n) : v \in Venues, n \in 0..MaxSuffix}
\* account keys a caller chooses itself
ChosenKeys == {<<"ext", "1">>}

NoName == << >>
NoKey == << >>
NoAlias == << >>
NoRecord == [name |-> NoName, api_key |-> "none", account_key |-> NoKey,
             account_alias |-> NoAlias]

\* str.lower() and str.capitalize() of a name
Lower(name) == [i \in DOMAIN name |-> IF name[i] = "Ext" THEN "ext" ELSE name[i]]
Capitalize(name) ==
    [i \in DOMAIN name |-> IF i = 1 /\ name[i] = "ext" THEN "Ext" ELSE Lower(name)[i]]
\* f"{exchange_name.capitalize()}账号"
DefaultAlias(name) == Append(Capitalize(name), "account")

\* the records a caller saves
GivenRecords ==
    [name : {NoName}, api_key : {"k2"}, account_key : {NoKey} \cup ChosenKeys,
     account_alias : {NoAlias, <<"mine">>}]
\* the single records of a legacy file
LegacyRecords ==
    [name : {<<"ext">>, <<"Ext">>}, api_key : {"k1"}, account_key : {NoKey},
     account_alias : {NoAlias}]

NoAccounts == [k \in ConfigKeys |-> NoRecord]
NoConfigEvent ==
    [kind |-> "none", exchange_name |-> NoName, config |-> NoRecord,
     account_key |-> NoKey, before |-> [legacy |-> FALSE, single |-> NoRecord,
                                        accounts |-> NoAccounts]]

\* an empty file
ConfigAtRest ==
    /\ all_configs = [legacy |-> FALSE, single |-> NoRecord, accounts |-> NoAccounts]
    /\ config_event = NoConfigEvent

\* an empty file, or a file in the legacy layout
ConfigInit ==
    /\ \/ all_configs = [legacy |-> FALSE, single |-> NoRecord, accounts |-> NoAccounts]
       \/ \E r \in LegacyRecords :
            all_configs = [legacy |-> TRUE, single |-> r, accounts |-> NoAccounts]
    /\ config_event = NoConfigEvent

\* lines 110-112: a legacy store becomes {name.lower(): record}
Keyed(configs) ==
    IF configs.legacy
    THEN [NoAccounts EXCEPT ![Lower(configs.single.name)] = configs.single]
    ELSE configs.accounts

StoredKeys(accounts) == {k \in ConfigKeys : accounts[k] # NoRecord}

\* lines 120-124, with a loop that never ends: every generated key is taken
RECURSIVE FreshKey_Reuse(_, _, _)
FreshKey_Reuse(exchange_name, accounts, counter) == Lower(exchange_name)

\* lines 120-124: exchange_name, then exchange_name_1, exchange_name_2, ...
RECURSIVE FreshKey(_, _, _)
FreshKey(exchange_name, accounts, counter) ==
    LET account_key == KeyOf(Lower(exchange_name), counter)
    IN  IF account_key \in StoredKeys(accounts)
        THEN FreshKey(exchange_name, accounts, counter + 1)
        ELSE account_key

\* lines 229-232, 239-243: the stored record with the derived fields filled in
Filled(config, account_key) ==
    [config EXCEPT
        !.account_key = IF @ = NoKey THEN account_key ELSE @,
        !.account_alias = IF @ = NoAlias THEN DefaultAlias(config.name) ELSE @]

\* ConfigManager.get_account_config, lines 217-246; NoRecord is None
GetAccountConfig(configs, account_key) ==
    IF configs.legacy
    THEN IF (IF configs.single.account_key # NoKey THEN configs.single.account_key
             ELSE Lower(configs.single.name)) = account_key
         THEN Filled(configs.single, account_key)
         ELSE NoRecord
    ELSE IF account_key \in StoredKeys(configs.accounts)
         THEN Filled(configs.accounts[account_key], account_key)
         ELSE NoRecord

\* ConfigManager.save_exchange_config, lines 98-144
SaveExchangeConfig(exchange_name, config) ==
    LET accounts == Keyed(all_configs)
        account_key == IF config.account_key = NoKey
                       THEN FreshKey(exchange_name, accounts, 0)
                       ELSE config.account_key
        stored == [config EXCEPT
                      !.name = Lower(exchange_name),
                      !.account_key = account_key,
                      !.account_alias = IF @ = NoAlias THEN DefaultAlias(exchange_name)
                                        ELSE @]
    IN  /\ UNCHANGED nonConfigVars
        /\ \E n \in 0..MaxSuffix : KeyOf(Lower(exchange_name), n) \notin StoredKeys(accounts)
        /\ all_configs' = [legacy |-> FALSE, single |-> NoRecord,
                           accounts |-> [accounts EXCEPT ![account_key] = stored]]
        /\ config_event' = [kind |-> "save", exchange_name |-> exchange_name,
                            config |-> config, account_key |-> account_key,
                            before |-> all_configs]

\* a caller reads one account: get_account_config, lines 217-246
ReadAccountConfig(account_key) ==
    /\ UNCHANGED nonConfigVars
    /\ config_event' = [kind |-> "get", exchange_name |-> NoName,
                        config |-> GetAccountConfig(all_configs, account_key),
                        account_key |-> account_key, before |-> all_configs]
    /\ UNCHANGED all_configs

ConfigNext ==
    \/ \E exchange_name \in Venues, config \in GivenRecords :
         SaveExchangeConfig(exchange_name, config)
    \/ \E account_key \in ConfigKeys : ReadAccountConfig(account_key)

(***************************************************************************)
(* Submissions through one adapter: ExtendedExchange.place_order and       *)
(* _run_async (exchanges/extended.py).  The persistent event loop is       *)
(* running and initialized.  Every call of _run_async starts a thread of   *)
(* its own, which hands the coroutine to the loop; the loop runs the       *)
(* coroutines it was handed in that order, each up to its await of the     *)
(* venue's answer.                                                         *)
(***************************************************************************)

\* the strategies sharing the adapter, each placing one order
Submitters == {"s1", "s2", "s3"}

SubmitInit ==
    /\ submit_pc = [c \in Submitters |-> "idle"]
    /\ call_order = << >>
    /\ api_loop = << >>
    /\ venue_received = << >>

\* place_order, lines 619-679, and _run_async up to thread.start(), line 215: the
\* caller starts the thread run_in_persistent_loop and waits in thread.join
PlaceOrderCall(c) ==
    /\ UNCHANGED nonSubmitVars
    /\ submit_pc[c] = "idle"
    /\ submit_pc' = [submit_pc EXCEPT ![c] = "thread_started"]
    /\ call_order' = Append(call_order, c)
    /\ UNCHANGED <<api_loop, venue_received>>

\* run_in_persistent_loop, line 205: asyncio.run_coroutine_threadsafe(coro, loop)
\* queues the coroutine on the loop
RunCoroutineThreadsafe(c) ==
    /\ UNCHANGED nonSubmitVars
    /\ submit_pc[c] = "thread_started"
    /\ submit_pc' = [submit_pc EXCEPT ![c] = "queued"]
    /\ api_loop' = Append(api_loop, c)
    /\ UNCHANGED <<call_order, venue_received>>

\* the loop starts the next coroutine: _place_order, lines 634-661, runs to the
\* await of create_order, whose request goes to the venue
LoopStart ==
    /\ UNCHANGED nonSubmitVars
    /\ api_loop # << >>
    /\ submit_pc' = [submit_pc EXCEPT ![Head(api_loop)] = "awaiting"]
    /\ api_loop' = Tail(api_loop)
    /\ venue_received' = Append(venue_received, Head(api_loop))
    /\ UNCHANGED call_order

\* the venue answers: the coroutine finishes, future.result returns (line 206),
\* the result is queued and the caller's join returns (lines 207-241)
VenueAnswer(c) ==
    /\ UNCHANGED nonSubmitVars
    /\ submit_pc[c] = "awaiting"
    /\ submit_pc' = [submit_pc EXCEPT ![c] = "returned"]
    /\ UNCHANGED <<call_order, api_loop, venue_received>>

SubmitNext ==
    \/ \E c \in Submitters : PlaceOrderCall(c)
    \/ \E c \in Submitters : RunCoroutineThreadsafe(c)
    \/ LoopStart
    \/ \E c \in Submitters : VenueAnswer(c)

(***************************************************************************)
(* One order on its way from a caller to the venue SDK:                    *)
(* OrderManager.place_order (core/order_manager.py), ExtendedExchange      *)
(* .place_order (exchanges/extended.py) and Extended.create_order          *)
(* (jiaoyisuoshili/extended.py).  A keyword argument is "absent", "true"   *)
(* or "false".                                                             *)
(***************************************************************************)

OrderSides == {"buy", "sell"}
OrderTypeNames == {"limit", "LIMIT", "market"}
Keyword == {"absent", "true", "false"}

NoSdkOrder == [sent |-> FALSE, time_in_force |-> "none", post_only |-> FALSE,
               reduce_only |-> FALSE]
NoOrderCall ==
    [stage |-> "idle", caller |-> "none", side |-> "buy", order_type |-> "limit",
     post_only |-> FALSE, postOnly |-> "absent", reduceOnly |-> "absent",
     overridden |-> FALSE, sdk |-> NoSdkOrder]

OrderInit == order_call = NoOrderCall

\* a caller may call when the order before it has reached the SDK
CanCall == order_call.stage \in {"idle", "sdk"}

\* str.upper() of an order type
UpperType(order_type) == IF order_type = "market" THEN "MARKET" ELSE "LIMIT"

\* _execute_batch_orders, sliding_window_grid.py lines 765-780: a limit order with
\* symbol, side, quantity and price, nothing else
StrategyLimitOrder(side) ==
    /\ UNCHANGED nonOrderVars
    /\ CanCall
    /\ order_call' = [NoOrderCall EXCEPT !.stage = "manager", !.caller = "grid",
                                         !.side = side]

\* stop(), sliding_window_grid.py lines 180-189: the closing market order
StrategyCloseOrder(side) ==
    /\ UNCHANGED nonOrderVars
    /\ CanCall
    /\ order_call' = [NoOrderCall EXCEPT !.stage = "manager", !.caller = "stop",
                                         !.side = side, !.order_type = "market",
                                         !.reduceOnly = "true"]

\* any other caller of OrderManager.place_order, with any of its arguments
OtherOrder(side, order_type, post_only, postOnly, reduceOnly) ==
    /\ UNCHANGED nonOrderVars
    /\ CanCall
    /\ order_call' = [NoOrderCall EXCEPT !.stage = "manager", !.caller = "other",
                                         !.side = side, !.order_type = order_type,
                                         !.post_only = post_only, !.postOnly = postOnly,
                                         !.reduceOnly = reduceOnly,
                                         !.overridden = (postOnly # "absent")]

\* OrderManager.place_order, order_manager.py lines 24-71: the default for a limit
\* order, then exchange.place_order(..., **kwargs) without post_only
ManagerPlaceOrder ==
    /\ UNCHANGED nonOrderVars
    /\ order_call.stage = "manager"
    /\ order_call' =
        [order_call EXCEPT
            !.stage = "adapter",
            !.postOnly = IF order_call.order_type = "limit" /\ @ = "absent"
                         THEN "true" ELSE @,
            !.post_only = FALSE]

\* ExtendedExchange.place_order, exchanges/extended.py lines 619-679
ExchangePlaceOrder ==
    /\ UNCHANGED nonOrderVars
    /\ order_call.stage = "adapter"
    /\ LET defaulted == IF UpperType(order_call.order_type) = "LIMIT"
                           /\ order_call.postOnly = "absent"
                        THEN "true" ELSE order_call.postOnly
       IN  order_call' =
             [order_call EXCEPT
                 !.stage = "client",
                 !.order_type = UpperType(order_call.order_type),
                 !.postOnly = IF order_call.post_only THEN "true" ELSE defaulted]

\* line 1001 read from a key the adapters never write
SdkPostOnly_OtherKey(postOnly) == FALSE

\* Extended.create_order line 1001: params.get('postOnly', False)
SdkPostOnly(postOnly) == postOnly = "true"

\* Extended.create_order, jiaoyisuoshili/extended.py lines 926-1018: the call of
\* trading_client.place_order
ClientCreateOrder ==
    /\ UNCHANGED nonOrderVars
    /\ order_call.stage = "client"
    /\ order_call' =
        [order_call EXCEPT
            !.stage = "sdk",
            !.sdk = IF order_call.order_type = "MARKET"
                    THEN [sent |-> TRUE, time_in_force |-> "IOC", post_only |-> FALSE,
                          reduce_only |-> (order_call.reduceOnly = "true")]
                    ELSE [sent |-> TRUE, time_in_force |-> "GTT",
                          post_only |-> SdkPostOnly(order_call.postOnly),
                          reduce_only |-> (order_call.reduceOnly = "true")]]

OrderNext ==
    \/ \E side \in OrderSides : StrategyLimitOrder(side)
    \/ \E side \in OrderSides : StrategyCloseOrder(side)
    \/ \E side \in OrderSides, order_type \in OrderTypeNames, post_only \in BOOLEAN,
          postOnly \in Keyword, reduceOnly \in {"absent", "true"} :
         OtherOrder(side, order_type, post_only, postOnly, reduceOnly)
    \/ ManagerPlaceOrder
    \/ ExchangePlaceOrder
    \/ ClientCreateOrder

(***************************************************************************)
(* The ideal ladder: ideal_sell_prices and ideal_buy_prices of             *)
(* _calculate_target_prices (sliding_window_grid.py, lines 538-566), as    *)
(* the loops compute them, for several configurations and quotes.          *)
(***************************************************************************)

\* grid_config, a configuration with a window of 40 around the mid price, and one
\* whose smallest valid price lies inside the buy ladder
LadderConfigs ==
    {grid_config,
     [grid_config EXCEPT !.WINDOW_PERCENT = 0, !.MAX_DRIFT_BUFFER = 40],
     [grid_config EXCEPT !.MIN_VALID_PRICE = 49975]}
LadderBids == {50000, 50003, 50005}
LadderAsks == {50010, 50013, 50017, 50020}

\* lines 546-550: for i in range(sell_count), break above the window
RECURSIVE IdealSellPrices(_, _, _, _, _)
IdealSellPrices(cfg, ask, bid, i, sell_count) ==
    LET price == SellStart(cfg, ask) + i * cfg.BASE_PRICE_INTERVAL
    IN  IF i >= sell_count \/ AboveWindow(cfg, ask, bid, price) THEN << >>
        ELSE <<price>> \o IdealSellPrices(cfg, ask, bid, i + 1, sell_count)

\* lines 559-566: for i in range(buy_count), break below the window or below
\* MIN_VALID_PRICE
RECURSIVE IdealBuyPrices(_, _, _, _, _)
IdealBuyPrices(cfg, ask, bid, i, buy_count) ==
    LET price == BuyEnd(cfg, bid) - i * cfg.BASE_PRICE_INTERVAL
    IN  IF \/ i >= buy_count
           \/ BelowWindow(cfg, ask, bid, price)
           \/ price < cfg.MIN_VALID_PRICE
        THEN << >>
        ELSE <<price>> \o IdealBuyPrices(cfg, ask, bid, i + 1, buy_count)

NoLadder == [done |-> FALSE, cfg |-> grid_config, ask |-> 0, bid |-> 0, sell_count |-> 0,
             buy_count |-> 0, ideal_sell_prices |-> << >>, ideal_buy_prices |-> << >>]

LadderInit == ladder = NoLadder

\* lines 534-566 of one planning call with configuration cfg, quote (bid, ask) and a
\* position of pos halves of order_size
IdealLadder(cfg, ask, bid, pos) ==
    LET sell_count == SellCount(cfg, pos)
        buy_count == cfg.TOTAL_ORDERS - sell_count
    IN  /\ UNCHANGED nonLadderVars
        /\ ladder' = [done |-> TRUE, cfg |-> cfg, ask |-> ask, bid |-> bid,
                      sell_count |-> sell_count, buy_count |-> buy_count,
                      ideal_sell_prices |-> IdealSellPrices(cfg, ask, bid, 0, sell_count),
                      ideal_buy_prices |-> IdealBuyPrices(cfg, ask, bid, 0, buy_count)]

LadderNext ==
    \E cfg \in LadderConfigs, ask \in LadderAsks, bid \in LadderBids, pos \in InitialPositions :
        IdealLadder(cfg, ask, bid, pos)

(***************************************************************************)
(* stop() of a running instance, step by step (sliding_window_grid.py,     *)
(* lines 150-207), with the account's live orders and position (in lots of *)
(* order_size).  Orders are placed and filled while the instance runs;     *)
(* the venue goes on filling while stop() works.                           *)
(***************************************************************************)

\* the orders the instance places before it is stopped
MaxStopOrders == 3

NoStop ==
    [pc |-> "running", signalled |-> FALSE, worker |-> "ticking", open_orders |-> << >>,
     live_at_read |-> {}, attempted |-> {}, position_qty |-> 0, position_at_read |-> 0,
     close_orders |-> << >>, is_running |-> TRUE, active_orders_cleared |-> FALSE,
     status |-> "none", degraded |-> FALSE, placed |-> 0]

StopInit ==
    /\ stop = NoStop
    /\ live_orders = {}
    /\ account_position = 0

\* the ids of a set of orders as a list, in the order the venue lists them
RECURSIVE IdList(_)
IdList(orders) ==
    IF orders = {} THEN << >>
    ELSE LET o == CHOOSE x \in orders : \A y \in orders : x.order_id <= y.order_id
         IN  <<o.order_id>> \o IdList(orders \ {o})

\* a tick of the running instance places a limit order
PlaceWhileRunning(side) ==
    /\ UNCHANGED nonStopVars
    /\ stop.pc = "running"
    /\ stop.placed < MaxStopOrders
    /\ live_orders' = live_orders \cup {[order_id |-> stop.placed + 1, side |-> side]}
    /\ stop' = [stop EXCEPT !.placed = @ + 1]
    /\ UNCHANGED account_position

\* the venue fills a live order
FillLiveOrder(o) ==
    /\ UNCHANGED nonStopVars
    /\ o \in live_orders
    /\ live_orders' = live_orders \ {o}
    /\ account_position' = IF o.side = "buy" THEN account_position + 1
                           ELSE account_position - 1
    /\ UNCHANGED stop

\* lines 152-158: is_running is true; signal the cadence worker and join it for at
\* most 5 s (in_time: the worker left its loop before the deadline)
StopSignalAndJoin(in_time) ==
    /\ UNCHANGED nonStopVars
    /\ stop.pc = "running"
    /\ stop' = [stop EXCEPT !.pc = "read_orders", !.signalled = TRUE,
                            !.worker = IF in_time THEN "exited" ELSE "ticking"]
    /\ UNCHANGED <<live_orders, account_position>>

\* line 163: get_open_orders(symbol); an exception leaves the try block for the
\* handler of lines 203-207
StopReadOrders(ok) ==
    /\ UNCHANGED nonStopVars
    /\ stop.pc = "read_orders"
    /\ stop' = IF ok
               THEN [stop EXCEPT !.pc = IF live_orders = {} THEN "read_position"
                                       ELSE "cancel",
                                 !.open_orders = IdList(live_orders),
                                 !.live_at_read = {o.order_id : o \in live_orders}]
               ELSE [stop EXCEPT !.pc = "returned", !.status = "error",
                                 !.live_at_read = {o.order_id : o \in live_orders},
                                 !.degraded = TRUE]
    /\ UNCHANGED <<live_orders, account_position>>

\* lines 165-173: cancel_order for one order of the list; a failure is printed
StopCancel(ok) ==
    /\ UNCHANGED nonStopVars
    /\ stop.pc = "cancel"
    /\ LET order_id == Head(stop.open_orders)
           rest == Tail(stop.open_orders)
       IN  /\ ok => \E o \in live_orders : o.order_id = order_id
           /\ live_orders' = IF ok THEN {o \in live_orders : o.order_id # order_id}
                             ELSE live_orders
           /\ stop' = [stop EXCEPT !.pc = IF rest = << >> THEN "read_position" ELSE "cancel",
                                   !.open_orders = rest,
                                   !.attempted = @ \cup {order_id}]
    /\ UNCHANGED account_position

\* lines 176-178: position_manager.get_position; a query that fails is answered
\* with a zero quantity (exchanges/extended.py 872-946)
StopReadPosition(ok) ==
    /\ UNCHANGED nonStopVars
    /\ stop.pc = "read_position"
    /\ LET position_qty == IF ok THEN account_position ELSE 0
       IN  stop' = [stop EXCEPT !.pc = IF position_qty # 0 THEN "close" ELSE "finish",
                                !.position_qty = position_qty,
                                !.position_at_read = account_position,
                                !.degraded = ~ok /\ account_position # 0]
    /\ UNCHANGED <<live_orders, account_position>>

\* lines 179-192: the closing market order; a failure is printed
StopClose(ok) ==
    /\ UNCHANGED nonStopVars
    /\ stop.pc = "close"
    /\ stop' = [stop EXCEPT
                  !.pc = "finish",
                  !.close_orders = Append(@,
                      [side |-> IF stop.position_qty > 0 THEN "sell" ELSE "buy",
                       order_type |-> "market",
                       quantity |-> IF stop.position_qty > 0 THEN stop.position_qty
                                    ELSE -stop.position_qty,
                       reduceOnly |-> TRUE])]
    /\ account_position' =
         IF ~ok THEN account_position
         ELSE IF stop.position_qty > 0
         THEN (IF account_position > stop.position_qty
               THEN account_position - stop.position_qty
               ELSE IF account_position > 0 THEN 0 ELSE account_position)
         ELSE (IF account_position < stop.position_qty
               THEN account_position - stop.position_qty
               ELSE IF account_position < 0 THEN 0 ELSE account_position)
    /\ UNCHANGED live_orders

\* lines 194-202: is_running = False, active_orders.clear(), status 'stopped'
StopFinish ==
    /\ UNCHANGED nonStopVars
    /\ stop.pc = "finish"
    /\ stop' = [stop EXCEPT !.pc = "returned", !.is_running = FALSE,
                            !.active_orders_cleared = TRUE, !.status = "stopped"]
    /\ UNCHANGED <<live_orders, account_position>>

StopNext ==
    \/ \E side \in {"buy", "sell"} : PlaceWhileRunning(side)
    \/ \E o \in live_orders : FillLiveOrder(o)
    \/ \E in_time \in BOOLEAN : StopSignalAndJoin(in_time)
    \/ \E ok \in BOOLEAN : StopReadOrders(ok)
    \/ \E ok \in BOOLEAN : StopCancel(ok)
    \/ \E ok \in BOOLEAN : StopReadPosition(ok)
    \/ \E ok \in BOOLEAN : StopClose(ok)
    \/ StopFinish

(***************************************************************************)
(* The adapters of one account: ExtendedExchange (exchanges/extended.py)    *)
(* with its API event-loop thread, around an Extended client                *)
(* (jiaoyisuoshili/extended.py) with its order-book event-loop thread and   *)
(* its SDK session.  The pool holds at most one of them; strategies keep    *)
(* the managers, hence the adapter, they were created with.                 *)
(***************************************************************************)

\* adapters built for the account in one run, failed venue or SDK calls in one run
MaxAdapters == 2
MaxAdapterErrors == 2

AdapterIds == 1..MaxAdapters
NoAdapter == 0
\* an adapter object: api_loop = the API event-loop thread runs its loop,
\* api_loop_initialized = ExtendedExchange._api_loop_initialized, initialized =
\* Extended._initialized, session_open = the trading client's session is open,
\* orderbook_loop = the order-book event-loop thread runs, started = API event-loop
\* threads started so far
Unbuilt == [made |-> FALSE, api_loop |-> FALSE, api_loop_initialized |-> FALSE,
            initialized |-> FALSE, session_open |-> FALSE, orderbook_loop |-> FALSE,
            started |-> 0]
NoAdapterEvent == [kind |-> "none", adapter |-> NoAdapter, reached |-> FALSE,
                   restarted |-> FALSE, session_closed |-> FALSE]

AdapterInit ==
    /\ adapters = [e \in AdapterIds |-> Unbuilt]
    /\ adapter_pooled = NoAdapter
    /\ adapter_next = 1
    /\ adapter_held = {}
    /\ adapter_closing = NoAdapter
    /\ adapter_errors = 0
    /\ adapter_event = NoAdapterEvent

\* Extended.initialize, lines 278-304: a new trading client unless one is initialized;
\* the markets read works (order-book loop started, line 304) or raises, and either
\* way _initialized is set
Initialize(a, venue_ok) ==
    [a EXCEPT !.session_open = IF a.initialized THEN a.session_open ELSE TRUE,
              !.initialized = TRUE,
              !.orderbook_loop = IF venue_ok THEN TRUE ELSE a.orderbook_loop]

\* _start_api_event_loop, lines 106-156: a new thread runs the loop and initializes
\* the client in it when _api_loop_initialized is not set
StartApiEventLoop(a, venue_ok) ==
    LET b == [a EXCEPT !.api_loop = TRUE, !.started = a.started + 1]
    IN  IF b.api_loop_initialized THEN b
        ELSE [Initialize(b, venue_ok) EXCEPT !.api_loop_initialized = venue_ok]

\* _run_async, lines 159-196, up to the point where the coroutine is handed to the
\* loop: start the loop when it is not running, initialize when not initialized
RunAsync(a, venue_ok) ==
    LET b == IF a.api_loop THEN a ELSE StartApiEventLoop(a, venue_ok)
    IN  IF b.api_loop_initialized THEN b
        ELSE [Initialize(b, venue_ok) EXCEPT !.api_loop_initialized = venue_ok]

\* a Venue Client: an adapter with a running executor that passes _ensure_initialized
\* and has an open session
Live(e) ==
    /\ adapters[e].made
    /\ adapters[e].api_loop
    /\ adapters[e].initialized
    /\ adapters[e].session_open

AdapterFailures(flags) == Cardinality({i \in DOMAIN flags : ~flags[i]})

\* ExchangeInstancePool.get_managers for the account while the pool has no adapter for
\* it: ExtendedExchange.__init__ (lines 43-98) starts the API loop, the adapter is pooled
AdapterCreate(venue_ok) ==
    /\ UNCHANGED nonAdapterVars
    /\ adapter_pooled = NoAdapter
    /\ adapter_closing = NoAdapter
    /\ adapter_next <= MaxAdapters
    /\ adapter_errors' = adapter_errors + AdapterFailures(<<venue_ok>>)
    /\ adapter_errors' <= MaxAdapterErrors
    /\ adapters' = [adapters EXCEPT ![adapter_next] =
                        StartApiEventLoop([Unbuilt EXCEPT !.made = TRUE], venue_ok)]
    /\ adapter_pooled' = adapter_next
    /\ adapter_next' = adapter_next + 1
    /\ adapter_event' = [NoAdapterEvent EXCEPT !.kind = "created", !.adapter = adapter_next]
    /\ UNCHANGED <<adapter_held, adapter_closing>>

\* a strategy is created with the managers of the pooled adapter and keeps them
\* (backend/api/strategy.py, line 139)
StrategyAttach ==
    /\ UNCHANGED nonAdapterVars
    /\ adapter_pooled # NoAdapter
    /\ adapter_pooled \notin adapter_held
    /\ adapter_held' = adapter_held \cup {adapter_pooled}
    /\ adapter_event' = NoAdapterEvent
    /\ UNCHANGED <<adapters, adapter_pooled, adapter_next, adapter_closing, adapter_errors>>

\* a tick of a strategy holding the adapter, or a request through the pool, calls a
\* venue method: _run_async, then the coroutine, which starts with _ensure_initialized
AdapterCall(e, venue_ok) ==
    /\ UNCHANGED nonAdapterVars
    /\ e \in adapter_held \cup ({adapter_pooled} \ {NoAdapter})
    /\ adapter_errors' = adapter_errors + AdapterFailures(<<venue_ok>>)
    /\ adapter_errors' <= MaxAdapterErrors
    /\ LET b == RunAsync(adapters[e], venue_ok)
       IN  /\ adapters' = [adapters EXCEPT ![e] = b]
           /\ adapter_event' = [NoAdapterEvent EXCEPT
                    !.kind = "call", !.adapter = e,
                    !.reached = b.api_loop /\ b.api_loop_initialized /\ b.initialized
                                    /\ b.session_open /\ venue_ok,
                    !.restarted = b.started > adapters[e].started]
    /\ UNCHANGED <<adapter_pooled, adapter_next, adapter_held, adapter_closing>>

\* remove_account calls close() of the pooled adapter; close, lines 965-973: stop the
\* API loop and join its thread, whose exit resets _api_loop_initialized (line 150)
CloseStop ==
    /\ UNCHANGED nonAdapterVars
    /\ adapter_pooled # NoAdapter
    /\ adapter_closing = NoAdapter
    /\ adapters' = [adapters EXCEPT ![adapter_pooled] =
                        IF @.api_loop
                        THEN [@ EXCEPT !.api_loop = FALSE, !.api_loop_initialized = FALSE]
                        ELSE @]
    /\ adapter_closing' = adapter_pooled
    /\ adapter_event' = NoAdapterEvent
    /\ UNCHANGED <<adapter_pooled, adapter_next, adapter_held, adapter_errors>>

\* close, lines 975-983: _run_async(_close()), where Extended.close (1685-1695) closes
\* the trading client and clears _initialized; any error is printed; remove_account
\* then drops the adapter from the pool
CloseSession(venue_ok, sdk_ok) ==
    /\ UNCHANGED nonAdapterVars
    /\ adapter_closing # NoAdapter
    /\ adapter_errors' = adapter_errors + AdapterFailures(<<venue_ok, sdk_ok>>)
    /\ adapter_errors' <= MaxAdapterErrors
    /\ LET e == adapter_closing
           b == RunAsync(adapters[e], venue_ok)
           ran == b.api_loop /\ b.api_loop_initialized
           done == ran /\ sdk_ok
       IN  /\ adapters' = [adapters EXCEPT ![e] =
                    IF done THEN [b EXCEPT !.session_open = FALSE, !.initialized = FALSE]
                    ELSE b]
           /\ adapter_event' = [NoAdapterEvent EXCEPT
                    !.kind = "closed", !.adapter = e,
                    !.restarted = b.started > adapters[e].started,
                    !.session_closed = done]
    /\ adapter_pooled' = NoAdapter
    /\ adapter_closing' = NoAdapter
    /\ UNCHANGED <<adapter_next, adapter_held>>

AdapterNext ==
    \/ \E venue_ok \in BOOLEAN : AdapterCreate(venue_ok)
    \/ StrategyAttach
    \/ \E e \in AdapterIds, venue_ok \in BOOLEAN : AdapterCall(e, venue_ok)
    \/ CloseStop
    \/ \E venue_ok \in BOOLEAN, sdk_ok \in BOOLEAN : CloseSession(venue_ok, sdk_ok)

(***************************************************************************)
(* The specifications: one subsystem moves, the others rest in their        *)
(* initial state.                                                           *)
(***************************************************************************)

Init ==
    CacheInit /\ PoolInit /\ TickInit /\ GridAtRest /\ AdapterInit /\ DepthInit
        /\ SymbolAtRest /\ ConfigAtRest /\ SubmitInit /\ OrderInit /\ LadderInit /\ StopInit

SpecCache == Init /\ [][CacheNext]_vars

SpecPool == Init /\ [][PoolNext]_vars

SpecTick == Init /\ [][TickNext]_vars
\* the reconciliation tick starts on any of the accounts of GridInit
InitGrid ==
    CacheInit /\ PoolInit /\ TickInit /\ GridInit /\ AdapterInit /\ DepthInit
        /\ SymbolAtRest /\ ConfigAtRest /\ SubmitInit /\ OrderInit /\ LadderInit /\ StopInit
InitSymbol ==
    CacheInit /\ PoolInit /\ TickInit /\ GridAtRest /\ AdapterInit /\ DepthInit
        /\ SymbolInit /\ ConfigAtRest /\ SubmitInit /\ OrderInit /\ LadderInit /\ StopInit
InitConfig ==
    CacheInit /\ PoolInit /\ TickInit /\ GridAtRest /\ AdapterInit /\ DepthInit
        /\ SymbolAtRest /\ ConfigInit /\ SubmitInit /\ OrderInit /\ LadderInit /\ StopInit
SpecGrid == InitGrid /\ [][GridNext]_vars
SpecAdapter == Init /\ [][AdapterNext]_vars
SpecDepth == Init /\ [][DepthNext]_vars
SpecEmptyStream == Init /\ [][EmptyStreamNext]_vars
SpecSymbol == InitSymbol /\ [][SymbolNext]_vars
SpecConfig == InitConfig /\ [][ConfigNext]_vars
SpecSubmit == Init /\ [][SubmitNext]_vars
SpecStop == Init /\ [][StopNext]_vars
SpecLadder == Init /\ [][LadderNext]_vars
SpecOrder == Init /\ [][OrderNext]_vars

(***************************************************************************)
(* Claims about the reconciliation tick (SpecGrid).                        *)
(***************************************************************************)

\* C1 (post-only safety): every limit order the strategy submits, with (bid, ask) the
\* quotes of the snapshot it was planned from, has price <= bid - SAFE_GAP when it is a
\* buy and price >= ask + SAFE_GAP when it is a sell.
C1_PostOnlySafety ==
    grid_event.kind = "submit" =>
        /\ grid_event.side = "buy" => grid_event.price <= grid_event.bid - grid_config.SAFE_GAP
        /\ grid_event.side = "sell" => grid_event.price >= grid_event.ask + grid_config.SAFE_GAP

\* the venue accepted a sell planned from its live quotes on the first level above
\* ask + SAFE_GAP, next to a buy of the strategy that already rests in the book
C1_Witness ==
    /\ grid_event.kind = "submit"
    /\ grid_event.ok
    /\ grid_event.side = "sell"
    /\ grid_event.ask = ask_price
    /\ grid_event.price <= grid_event.ask + grid_config.SAFE_GAP
                                + grid_config.BASE_PRICE_INTERVAL
    /\ \E b \in book : /\ b.side = "buy"
                       /\ b.order_id > LeftoverCount
                       /\ b.price <= grid_event.bid - grid_config.SAFE_GAP

\* C2 (inventory cap): in every tick where the account is long by MAX_MULTIPLIER
\* order sizes or more (equality included), the strategy plans sell_count = TOTAL_ORDERS
\* and buy_count = 0 and submits no buy; symmetrically no sell when it is short by that
\* much.  The position is the account's position when the tick read it.
C2_InventoryCap ==
    LET cap == PositionUnit * grid_config.MAX_MULTIPLIER
        planned == grid_event.kind \in {"plan", "replan"}
        submitted == grid_event.kind = "submit"
    IN  /\ (planned /\ grid_event.position_real >= cap) =>
                /\ grid_event.plan.sell_count = grid_config.TOTAL_ORDERS
                /\ grid_event.plan.buy_count = 0
                /\ grid_event.plan.buy_prices = {}
        /\ (planned /\ grid_event.position_real <= -cap) =>
                /\ grid_event.plan.sell_count = 0
                /\ grid_event.plan.buy_count = grid_config.TOTAL_ORDERS
                /\ grid_event.plan.sell_prices = {}
        /\ (submitted /\ grid_event.position_real >= cap) => grid_event.side # "buy"
        /\ (submitted /\ grid_event.position_real <= -cap) => grid_event.side # "sell"

\* C5 (budgeted cancels): a planning call queues at most 10 far-order cancellations
\* (the entries without an order id), and it queues a cancellation for every order
\* after the first of each level at an ideal price, however many those are.
C5_BudgetedCancels ==
    grid_event.kind \in {"plan", "replan"} =>
        LET queued == grid_event.plan.cancel_orders
            ideal == grid_event.plan.ideal_prices_set
        IN  /\ FarQueued(queued) <= FarCancelBudget
            /\ {queued[i].order_id : i \in {j \in DOMAIN queued : queued[j].order_id # 0}}
                    = {o.order_id : o \in Duplicates(grid_event.orders, "sell", ideal)
                                        \cup Duplicates(grid_event.orders, "buy", ideal)}
            /\ DuplicatesQueued(queued)
                    = Cardinality(Duplicates(grid_event.orders, "sell", ideal)
                                        \cup Duplicates(grid_event.orders, "buy", ideal))

\* a tick queued exactly 10 of more than 10 far candidates, in a run where a tick
\* queued more than 10 duplicate cancellations
C5_Witness ==
    /\ grid_event.kind = "plan"
    /\ FarQueued(grid_event.plan.cancel_orders) = FarCancelBudget
    /\ grid_event.plan.far_candidates > FarCancelBudget
    /\ most_duplicates > FarCancelBudget

\* C21 (inventory skew): for a position of m order sizes, 0 < m < max_multiplier, a
\* long position gives buy_ratio = base_buy * (1 - m / max_multiplier) and
\* sell_ratio = 1 - buy_ratio (mirrored for a short one), each clamped to
\* [0.1, 0.9]; sell_count = round(total_orders * sell_ratio) and buy_count is the
\* rest; m = 5 of 15 with four orders gives three sells and one buy.  Ratios are in
\* percent and m in halves, so every ratio is a fraction over 100 * 2 * max_multiplier.
C21_InventorySkew ==
    LET q == grid_event.position_read
        max2 == PositionUnit * grid_config.MAX_MULTIPLIER
        den == 100 * max2
        buy_ratio == IF q > 0 THEN grid_config.BUY_RATIO * (max2 - q)
                     ELSE den - grid_config.SELL_RATIO * (max2 + q)
        sell_ratio == den - buy_ratio
        clamped_sell == Max(10 * max2, Min(90 * max2, sell_ratio))
    IN  (grid_event.kind \in {"plan", "replan"} /\ q # 0 /\ Abs(q) < max2) =>
            /\ grid_event.plan.sell_count
                    = RoundHalfEven(grid_config.TOTAL_ORDERS * clamped_sell, den)
            /\ grid_event.plan.buy_count
                    = grid_config.TOTAL_ORDERS - grid_event.plan.sell_count
            /\ q = 5 * PositionUnit =>
                    (grid_event.plan.sell_count = 3 /\ grid_event.plan.buy_count = 1)

\* a tick planned with a long position of five order sizes: three sells, one buy
C21_Witness ==
    /\ grid_event.kind = "replan"
    /\ grid_event.position_read = 5 * PositionUnit
    /\ grid_event.position_real = 5 * PositionUnit
    /\ grid_event.plan.sell_count = 3
    /\ grid_event.plan.buy_count = 1

\* C22 (duplicate collapse): for every (side, price) level of the snapshot that
\* holds more than one order, inside the ideal ladder or not, the plan queues every
\* order but the first listed for cancellation by its order id.
C22_DuplicateCollapse ==
    grid_event.kind \in {"plan", "replan"} =>
        \A o \in grid_event.orders :
            (\E f \in grid_event.orders :
                    f.side = o.side /\ f.price = o.price /\ f.order_id < o.order_id)
            => \E i \in DOMAIN grid_event.plan.cancel_orders :
                    grid_event.plan.cancel_orders[i].order_id = o.order_id

\* C23 (far-order cleanup): in a tick with more existing price levels than
\* total_orders, the far candidates (outside the ideal set, at least 2 * SAFE_GAP from
\* mid) are queued for cancellation, farthest first, until the excess is gone or the
\* budget of ten queued cancels is used; queued duplicates, which remove no level,
\* do not count against the excess.
C23_FarCleanup ==
    LET plan == grid_event.plan
        queued_far == FarQueued(plan.cancel_orders)
        queued_duplicates == DuplicatesQueued(plan.cancel_orders)
    IN  (grid_event.kind \in {"plan", "replan"} /\ plan.excess > 0) =>
            queued_far = Min(plan.far_candidates,
                             Min(plan.excess, Max(0, FarCancelBudget - queued_duplicates)))

\* C24 (no buys at the long cap): a plan with buy_count = 0 has no new buy price, and
\* every buy in its cancel list is a duplicate (cancelled by order id), none is there
\* by the far rule.
C24_NoBuyFarCancels ==
    (grid_event.kind \in {"plan", "replan"} /\ grid_event.plan.buy_count = 0) =>
        /\ grid_event.plan.buy_prices = {}
        /\ \A i \in DOMAIN grid_event.plan.cancel_orders :
                grid_event.plan.cancel_orders[i].type = "buy"
                    => grid_event.plan.cancel_orders[i].order_id # 0

\* C29 (position degradation): the position a tick gets from PositionManager is the
\* venue's, or, when the query failed, the last known one (an empty one if none was
\* ever read); a known non-zero position is replaced by an empty one only when the
\* venue's position is empty.
C29_PositionDegradation ==
    [][grid_event'.kind \in {"plan", "replan"} =>
            /\ grid_event'.position_read \in
                    {venue_position, IF pm_positions.known THEN pm_positions.quantity ELSE 0}
            /\ (pm_positions.known /\ pm_positions.quantity # 0
                    /\ pm_positions'.quantity = 0) => venue_position = 0]_vars

\* C33 (per-order failure isolation): within a tick a cancel that fails leaves
\* the remaining cancels, the re-snapshot and the placements to come; a placement
\* that fails leaves the remaining placements to come, each attempted; and the
\* tick ends with status 'updated'.
C33_FailureIsolation ==
    [][grid' # grid =>
        /\ grid.pc = "cancel" =>
             /\ grid'.cancel_queue = Tail(grid.cancel_queue)
             /\ grid'.pc = IF Tail(grid.cancel_queue) = << >> THEN "replan" ELSE "cancel"
        /\ grid.pc = "replan" =>
             /\ grid'.order_queue = BatchOrders(grid_event'.plan)
             /\ IF grid'.order_queue = << >>
                THEN grid' = IdleGrid /\ grid_event'.status = "updated"
                ELSE grid'.pc = "submit"
        /\ grid.pc = "submit" =>
             /\ grid_event'.kind = "submit"
             /\ grid_event'.side = Head(grid.order_queue).type
             /\ grid_event'.price = Head(grid.order_queue).price
             /\ IF Tail(grid.order_queue) = << >>
                THEN grid' = IdleGrid /\ grid_event'.status = "updated"
                ELSE grid'.pc = "submit" /\ grid'.order_queue = Tail(grid.order_queue)]_vars

\* C33 witness: a placement has failed and the rest of the batch is still to be placed.
C33_Witness ==
    /\ grid_event.kind = "submit"
    /\ grid_event.failed
    /\ grid.pc = "submit"
    /\ grid.order_queue # << >>

C38_NoSelfMadeDuplicates ==
    (grid_event.kind = "submit" /\ grid_event.ok) =>
        Cardinality({o \in book : o.side = grid_event.side
                                  /\ o.price = grid_event.price}) = 1

\* C40 (ladder convergence): with quotes and position constant and no venue call
\* failing, a tick that read the venue's true state and queued no cancel and no
\* placement (the state every later tick repeats) finds the live orders to be
\* exactly the validated ideal ladder, one order on each level.
C40_LadderConvergence ==
    (/\ grid_event.kind = "replan"
     /\ grid_event.status = "updated"
     /\ grid_event.plan.cancel_orders = << >>
     /\ grid_event.orders = book
     /\ grid_event.bid = bid_price /\ grid_event.ask = ask_price
     /\ grid_event.position_read = venue_position
     /\ venue_errors = 0 /\ fills = 0
     /\ <<bid_price, ask_price>> = QuotePath[1]) =>
        /\ {o.price : o \in book} = grid_event.plan.ideal_prices_set
        /\ Cardinality(book) = Cardinality(grid_event.plan.ideal_prices_set)

\* C19 (no-price guard): a tick whose snapshot of the market, the first or the one
\* taken after the cancels, came back with a zero bid or ask submits no order.
C19_NoPriceGuard ==
    /\ grid.pc = "submit" => (grid.ask # 0 /\ grid.bid # 0)
    /\ grid_event.kind = "submit" => (grid_event.ask # 0 /\ grid_event.bid # 0)

\* C20 (cold-start ladder): with bid 50000, ask 50010, no position and no open order,
\* the batch of the first tick is two sells at 50030 and 50040 and two buys at 49980
\* and 49970.
C20_ColdStartLadder ==
    (/\ grid_event.kind = "replan"
     /\ grid_event.bid = 50000 /\ grid_event.ask = 50010
     /\ grid_event.position_read = 0 /\ grid_event.position_real = 0
     /\ grid_event.orders = {} /\ book = {}
     /\ grid_next_id = LeftoverCount + 1) =>
        /\ grid_event.plan.sell_prices = {50030, 50040}
        /\ grid_event.plan.buy_prices = {49980, 49970}
        /\ Len(grid.order_queue) = 4

(***************************************************************************)
(* Claims about the open-orders cache (SpecCache).                         *)
(***************************************************************************)

\* C6 (cache freshness): a get_open_orders(use_cache=true) call is answered from the
\* cache if and only if the cache timestamp is less than the TTL old and a venue
\* refresh has populated the cache since the adapter was created; a place_order or
\* cancel_order on a never-refreshed adapter does not make the cache count as populated.
C6_CacheFreshness ==
    (result.op = "get" /\ result.use_cache) =>
        ((result.kind = "cache") <=> (result.fresh_seen /\ result.refreshed_seen))

\* C7 (read your writes): a cached get_open_orders returns every order placed through
\* the adapter that is open at the venue (for its symbol) and no order cancelled
\* through the adapter; a cancel removes from the cache no order but the cancelled one.
C7_ReadYourWrites ==
    /\ (result.op = "get" /\ result.kind = "cache") =>
            /\ result.own_open \subseteq result.orders
            /\ result.orders \cap cancelled_ok = {}
    /\ (result.op = "cancel" /\ result.kind = "ok") =>
            result.removed \subseteq {result.order_id}

\* C8 (cache rebuild): after a refresh the cache holds every order the venue reported
\* as open for the account, whatever the symbol filter of the call that refreshed.
C8_CacheRebuild ==
    (result.op = "get" /\ result.kind = "rest" /\ ~result.refresh_failed) =>
        result.reported \subseteq result.cached_after

\* C9 (degradation): when the venue refresh fails and the cache was populated before,
\* get_open_orders returns the cached orders; the error reaches the caller only when
\* the refresh fails and no cache exists.
C9_StaleOnFailure ==
    result.op = "get" =>
        /\ result.kind = "error" => ~result.refreshed_seen
        /\ (result.refresh_failed /\ result.refreshed_seen) =>
                /\ result.kind # "error"
                /\ result.orders = Ids(FilterSymbol(open_orders, result.symbol))

\* C39 (bounded cache staleness): every get_open_orders answer given from the
\* cache comes from a cache whose last rebuild from the venue is less than the TTL
\* old; placements and cancels do not prolong the life of the other entries.
C39_BoundedStaleness ==
    (result.op = "get" /\ result.kind = "cache") => result.refresh_age < orders_cache_ttl

(***************************************************************************)
(* Claims about the exchange instance pool (SpecPool).                     *)
(***************************************************************************)

\* C10 (pool uniqueness): under concurrent get_managers(k) calls for one account key,
\* one adapter and one manager triple are constructed for the key and every caller
\* receives that same triple (the one the pool holds); a call whose construction
\* fails leaves the pool's entries for the key as they were.
C10_PoolUniqueness ==
    /\ \A k \in AccountKeys :
            /\ Cardinality(built[k]) <= 1
            /\ Cardinality(handed[k]) <= 1
            /\ handed[k] \subseteq {pool_managers[k]}
            /\ \A m \in handed[k] : m.exchange \in built[k]
    /\ (pool_ret.op = "get_managers" /\ pool_ret.kind = "error") =>
            <<pool_instances[pool_ret.key], pool_managers[pool_ret.key]>> = pool_ret.before

\* a get_managers(k) call that started while another thread was building k's adapter
\* has received the pooled triple
C10_Witness ==
    /\ pool_ret.op = "get_managers"
    /\ pool_ret.kind = "pooled"
    /\ pool_ret.contended
    /\ pool_ret.managers = pool_managers[pool_ret.key]

\* C11 (pool pairing): in every state another thread can observe (the class lock is
\* free), every account key has either both its adapter in _instances and its triple
\* in _managers, built around that adapter, or neither.
C11_PoolPairing ==
    pool_lock = 0 =>
        \A k \in AccountKeys :
            /\ (pool_instances[k] = NoExchange) <=> (pool_managers[k] = NoManagers)
            /\ pool_managers[k].exchange = pool_instances[k]

\* the instance lookup of the API layer returned the pooled adapter of a key whose
\* triple is pooled too, after an adapter had been removed and closed
C11_Witness ==
    /\ pool_lock = 0
    /\ pool_ret.op = "get_exchange_instance"
    /\ pool_ret.kind = "pooled"
    /\ pool_instances[pool_ret.key] = pool_ret.exchange
    /\ pool_managers[pool_ret.key] = Managers(pool_ret.exchange)
    /\ closed # {}

\* C13 (get_exchange terminates): a get_exchange call never waits for a lock that
\* cannot be released (the class lock held by its own thread), and the call returns
\* the pooled adapter of its key.
C13_GetExchangeTerminates ==
    /\ \A t \in PoolThreads :
            ~(pool_thread[t].pc = "nested" /\ pool_lock = t)
    /\ pool_ret.op = "get_exchange" =>
            /\ pool_ret.exchange # NoExchange
            /\ pool_ret.exchange = pool_instances[pool_ret.key]

\* C14 (remove_account ordering): when remove_account(k) invokes the adapter's close,
\* both entries of k have already left the pool maps and the class lock is not held;
\* when remove_account returns, close failed or not, k is in neither map.
C14_RemoveThenClose ==
    /\ \A t \in PoolThreads :
            pool_thread[t].pc = "close" =>
                /\ pool_lock # t
                /\ pool_instances[pool_thread[t].key] = NoExchange
                /\ pool_managers[pool_thread[t].key] = NoManagers
    /\ (pool_ret.op = "remove_account" /\ pool_lock = 0) =>
            /\ pool_instances[pool_ret.key] = NoExchange
            /\ pool_managers[pool_ret.key] = NoManagers

(***************************************************************************)
(* Claims about the adapters of an account (SpecAdapter).                  *)
(***************************************************************************)

\* C12 (venue-client uniqueness): at no time are two adapters of the account live,
\* that is, with a running executor and able to reach the venue.
C12_OneVenueClient == Cardinality({e \in AdapterIds : Live(e)}) <= 1

\* C15 (adapter close): when close() has returned, neither the API event-loop thread
\* nor the order-book event-loop thread of the adapter is running, close has started
\* no executor, and so the session was closed with the loops stopped.
C15_CloseStopsExecutors ==
    adapter_event.kind = "closed" =>
        /\ ~adapters[adapter_event.adapter].api_loop
        /\ ~adapters[adapter_event.adapter].orderbook_loop
        /\ ~adapter_event.restarted

(***************************************************************************)
(* Claims about the depth stream (SpecDepth, SpecEmptyStream).             *)
(***************************************************************************)

\* C25 (stream stall boundary): a get_depth that reads the pair it last recorded
\* drops the order book and answers from REST when the record is more than 30 s old,
\* keeps the order book when it is less than 30 s old; a call that finds no order
\* book for the symbol creates one.
C25_StallBoundary ==
    depth_event.kind = "depth" =>
        /\ (depth_event.same /\ depth_event.age > StallLimit) =>
                (depth_event.stalled /\ ~orderbooks /\ depth_event.source = "rest")
        /\ (depth_event.same /\ depth_event.age < StallLimit) =>
                (~depth_event.stalled /\ orderbooks)
        /\ ~depth_event.subscribed => depth_event.creating

\* the pair was unchanged for 30.001 s and the call dropped the order book
C25_Witness ==
    /\ depth_event.kind = "depth"
    /\ depth_event.same
    /\ depth_event.age = StallLimit + 1
    /\ depth_event.stalled
    /\ ~orderbooks

\* C26 (empty-stream recreate): every read that returns stream data, whatever its
\* limit, leaves the empty count at zero, and the order book is recreated for want
\* of data exactly when the read is the twentieth empty read in a row.
C26_EmptyRecreate ==
    depth_event.kind = "depth" =>
        /\ depth_event.seen # NoQuote => orderbook_empty_count = 0
        /\ depth_event.recreate <=> depth_event.run = EmptyLimit

(***************************************************************************)
(* Claims about symbol normalization (SpecSymbol).                         *)
(***************************************************************************)

\* C27 (normalization is idempotent): normalizing a normalized symbol changes
\* nothing, for the adapter's normalize_symbol and for the endpoints'
\* normalize_symbol, bare base symbols included.
C27_NormalizeIdempotent == normalized.by # "none" => normalized.twice = normalized.once

(***************************************************************************)
(* Claims about the configuration store (SpecConfig).                      *)
(***************************************************************************)

\* C28 (config round trip with a fresh key): saving a record without account_key
\* stores it under the exchange name, or under name_n for the smallest n >= 1
\* not in use; every record stored before is unchanged, a legacy single record
\* being kept under its own (lower-case) name; and get_account_config of the
\* new key returns the record with only account_key, alias and name derived.
C28_FreshKeyRoundTrip ==
    LET e == config_event
        before == Keyed(e.before)
    IN  (e.kind = "save" /\ e.config.account_key = NoKey) =>
            /\ \E n \in 0..MaxSuffix :
                 /\ e.account_key = KeyOf(e.exchange_name, n)
                 /\ \A m \in 0..(n - 1) : KeyOf(e.exchange_name, m) \in StoredKeys(before)
            /\ e.account_key \notin StoredKeys(before)
            /\ ~all_configs.legacy
            /\ \A k \in StoredKeys(before) : all_configs.accounts[k] = before[k]
            /\ e.before.legacy =>
                 all_configs.accounts[Lower(e.before.single.name)] = e.before.single
            /\ GetAccountConfig(all_configs, e.account_key) =
                 [e.config EXCEPT
                     !.name = e.exchange_name,
                     !.account_key = e.account_key,
                     !.account_alias = IF @ = NoAlias THEN DefaultAlias(e.exchange_name)
                                       ELSE @]

\* C28 witness: a record without account_key is saved over a legacy file of the
\* same exchange and gets the key name_1.
C28_Witness ==
    /\ config_event.kind = "save"
    /\ config_event.config.account_key = NoKey
    /\ config_event.before.legacy
    /\ config_event.account_key = KeyOf(config_event.exchange_name, 1)
    /\ Lower(config_event.before.single.name) = config_event.exchange_name

(***************************************************************************)
(* Claims about submissions through one adapter (SpecSubmit).              *)
(***************************************************************************)

\* C30 (per-account FIFO): submissions of concurrent strategies through one
\* adapter reach the venue one at a time, and in the order in which their
\* callers call_order them.
C30_PerAccountFifo ==
    /\ Cardinality({c \in Submitters : submit_pc[c] = "awaiting"}) <= 1
    /\ venue_received = SubSeq(call_order, 1, Len(venue_received))

(***************************************************************************)
(* Claims about an order on its way to the SDK (SpecOrder).                *)
(***************************************************************************)

\* C31 (limit orders are post-only): a limit order reaches the venue SDK with
\* post_only set whenever its caller did not pass postOnly itself, and the
\* strategy never passes it, so every limit order of the strategy is post-only.
C31_PostOnly ==
    /\ order_call.caller \in {"grid", "stop"} => ~order_call.overridden
    /\ (/\ order_call.stage = "sdk"
        /\ order_call.order_type = "LIMIT"
        /\ ~order_call.overridden) => order_call.sdk.post_only

\* C31 witness: a limit order of the strategy has reached the SDK, post-only.
C31_Witness ==
    /\ order_call.stage = "sdk"
    /\ order_call.caller = "grid"
    /\ order_call.order_type = "LIMIT"
    /\ order_call.sdk.post_only

(***************************************************************************)
(* Claims about the ideal ladder (SpecLadder).                             *)
(***************************************************************************)

\* C32 (ideal ladder): the sell ladder starts at the smallest multiple of the
\* interval that is >= ask + safe_gap, one step higher when that multiple equals
\* ask + safe_gap, rises by one interval per price, has at most sell_count prices
\* and none above mid + half_window + max_drift_buffer; the buy ladder starts at
\* the largest multiple <= bid - safe_gap, one step lower when equal, falls by
\* one interval per price, has at most buy_count prices and none below
\* mid - half_window - max_drift_buffer or below min_valid_price.  A ladder is
\* shorter than its count only where the next price would break a limit.
C32_IdealLadder ==
    LET cfg == ladder.cfg
        iv == cfg.BASE_PRICE_INTERVAL
        floor_sell == ladder.ask + cfg.SAFE_GAP
        ceil_buy == ladder.bid - cfg.SAFE_GAP
        sells == ladder.ideal_sell_prices
        buys == ladder.ideal_buy_prices
        top == (200 + cfg.WINDOW_PERCENT) * (ladder.ask + ladder.bid)
                   + 400 * cfg.MAX_DRIFT_BUFFER
        bottom == (200 - cfg.WINDOW_PERCENT) * (ladder.ask + ladder.bid)
                      - 400 * cfg.MAX_DRIFT_BUFFER
        first_sell == IF floor_sell % iv = 0 THEN floor_sell + iv
                      ELSE floor_sell + (iv - (floor_sell % iv))
        first_buy == IF ceil_buy % iv = 0 THEN ceil_buy - iv
                     ELSE ceil_buy - (ceil_buy % iv)
    IN  ladder.done =>
            /\ Len(sells) <= ladder.sell_count
            /\ Len(buys) <= ladder.buy_count
            /\ \A i \in DOMAIN sells :
                 /\ sells[i] = first_sell + (i - 1) * iv
                 /\ 400 * sells[i] <= top
            /\ \A i \in DOMAIN buys :
                 /\ buys[i] = first_buy - (i - 1) * iv
                 /\ 400 * buys[i] >= bottom
                 /\ buys[i] >= cfg.MIN_VALID_PRICE
            /\ Len(sells) < ladder.sell_count =>
                 400 * (first_sell + Len(sells) * iv) > top
            /\ Len(buys) < ladder.buy_count =>
                 \/ 400 * (first_buy - Len(buys) * iv) < bottom
                 \/ first_buy - Len(buys) * iv < cfg.MIN_VALID_PRICE

\* C32 witness: ask + safe_gap and bid - safe_gap are multiples of the interval,
\* and the window cuts the sell ladder after its first price.
C32_Witness ==
    /\ ladder.done
    /\ (ladder.ask + ladder.cfg.SAFE_GAP) % ladder.cfg.BASE_PRICE_INTERVAL = 0
    /\ (ladder.bid - ladder.cfg.SAFE_GAP) % ladder.cfg.BASE_PRICE_INTERVAL = 0
    /\ Len(ladder.ideal_sell_prices) = 1
    /\ ladder.sell_count = 2
    /\ Len(ladder.ideal_buy_prices) >= 1

(***************************************************************************)
(* Claims about stop() (SpecStop).                                         *)
(***************************************************************************)

\* C34 (stop sequence): stop() signals the cadence worker and waits for it, then
\* attempts a cancel for every open order of the symbol, then reads the position
\* and submits exactly one reduce-only market order (sell for a long, buy for a
\* short position, quantity |position|) if and only if the position is not zero,
\* and only then clears active_orders and sets running to false.
C34_StopSequence ==
    LET position == stop.position_at_read
    IN  /\ stop.pc # "running" => stop.signalled
        /\ stop.attempted # {} => stop.signalled
        /\ stop.close_orders # << >> => stop.pc \in {"finish", "returned"}
        /\ (~stop.is_running \/ stop.active_orders_cleared) => stop.pc = "returned"
        /\ stop.pc = "returned" =>
             /\ stop.attempted = stop.live_at_read
             /\ stop.close_orders =
                  IF position = 0 THEN << >>
                  ELSE <<[side |-> IF position > 0 THEN "sell" ELSE "buy",
                          order_type |-> "market",
                          quantity |-> IF position > 0 THEN position ELSE -position,
                          reduceOnly |-> TRUE]>>
             /\ ~stop.is_running
             /\ stop.active_orders_cleared

(***************************************************************************)
(* Claims about the threads of a strategy instance (SpecTick).             *)
(***************************************************************************)

\* C3 (cooldown): between any two successful limit-order submissions of the strategy
\* instance at least order_cooldown elapses, whichever thread runs the tick.
C3_Cooldown ==
    (tick_event.kind = "submit" /\ tick_event.prev # NoTime) =>
        tick_event.time - tick_event.prev >= ORDER_COOLDOWN

\* C4 (tick non-reentrancy): at most one execution of update() of the instance is in
\* progress at any time.
C4_TickNotReentrant == Cardinality(InTick) <= 1


\* the state of the instance that a rejected request must leave alone
lifecycle == <<is_running, stop_update_thread, last_order_time, cycle_count, api,
               worker, tick, last_submit, registered>>

\* one step of the instance seen from its lifecycle
LifecycleStep ==
    LET e == tick_event' IN
    \* running becomes true only in start(), false only in stop() or when start()
    \* gives up after its failed first tick
    /\ (~is_running /\ is_running') =>
            (api.pc = "idle" /\ api'.pc = "start_tick")
    /\ (is_running /\ ~is_running') =>
            \/ api.pc = "stop_join"
            \/ api.pc = "start_tick" /\ e.status = "error"
    \* start and restart on a running instance
    /\ (registered /\ e.kind \in {"start_return", "restart_return"} /\ e.was_running) =>
            (e.status \in {"already_running", "rejected"} /\ UNCHANGED lifecycle)
    \* stop on a stopped instance
    /\ (registered /\ e.kind = "stop_return" /\ ~e.was_running) =>
            (e.status = "not_running" /\ UNCHANGED lifecycle)
    \* delete stops a running instance first, then removes the id
    /\ (registered /\ e.kind = "delete_return") =>
            (~registered' /\ (is_running => (api.pc = "stop_join" /\ api.op = "delete")))
    /\ (registered /\ ~registered') => e.kind = "delete_return"
    \* after the delete every endpoint answers not-found
    /\ ~registered =>
            /\ ~registered'
            /\ e.thread = "api" => (e.status = "not_found" /\ UNCHANGED lifecycle)

C17_StopAlwaysStops ==
    (tick_event.kind = "stop_return" /\ tick_event.was_running) => ~is_running

\* C18 (start failure): a start whose first tick failed (an error, or no price in
\* one of its snapshots), or that found no price itself, returns an error, leaves
\* the instance not running and spawns no worker; a start returns 'started' only
\* with its first tick completed.
C18_StartFailure ==
    (/\ tick_event.kind \in {"start_return", "restart_return"}
     /\ tick_event.status \in {"error", "started"}) =>
        /\ (tick_event.first_tick = "error" \/ tick_event.no_price) =>
                tick_event.status = "error"
        /\ tick_event.status = "error" => (~is_running /\ ~tick_event.spawned)
        /\ tick_event.status = "started" =>
                /\ tick_event.first_tick \notin {"none", "error"}
                /\ tick["api"] = NoTick

\* C36 (no orders after stop): once stop() has returned and cleared is_running, the
\* instance submits no further limit order, also when the join deadline expired
\* while the worker was inside a tick.
C36_NoOrdersAfterStop == tick_event.kind = "submit" => is_running

\* C37 (one cadence worker while running): from the return of a start with
\* 'started' until stop() is called, a cadence worker of the instance is alive and
\* in its loop, over every sequence of start, stop and restart.
C37_OneWorkerWhileRunning ==
    (is_running /\ ~stop_update_thread /\ api.pc # "start_tick") =>
        (worker.alive /\ worker.pc # "exit")

====
